---------------------------- MODULE Spec2Model ----------------------------
(***************************************************************************)
(* Walk-in interview drive portal: the in-memory entity store (MemStorage) *)
(* and the HTTP handlers of registerRoutes that mutate it, the WebSocket   *)
(* broadcast to the connected viewers, and the candidate queue page's      *)
(* position computation.                                                   *)
(*                                                                         *)
(* One action is one HTTP request handled to completion (the sequential   *)
(* execution of a handler and of its broadcasts), one event of a viewer's *)
(* socket, or one evaluation of a client-side effect.                     *)
(***************************************************************************)
EXTENDS Integers, Sequences, FiniteSets, TLC

VARIABLES
    rooms,            \* MemStorage.rooms : key -> Room
    roomCurrentId,    \* MemStorage.roomCurrentId
    panels,           \* MemStorage.panels : key -> Panel
    panelCurrentId,   \* MemStorage.panelCurrentId
    candidates,       \* MemStorage.candidates : key -> Candidate
    candidateCurrentId, \* MemStorage.candidateCurrentId
    feedbacks,        \* MemStorage.feedbacks : key -> Feedback
    feedbackCurrentId, \* MemStorage.feedbackCurrentId
    users,            \* MemStorage.users : key -> User
    userCurrentId,    \* MemStorage.userCurrentId
    rolePermissions,  \* MemStorage.rolePermissions : key -> RolePermission
    rolePermissionCurrentId, \* MemStorage.rolePermissionCurrentId
    clock,            \* the latest value new Date() has returned
    issued,           \* per entity kind, the identifiers create has returned, in order
    channels,         \* viewer -> its WebSocket's readyState and the events it was sent
    page,             \* EmailQueuePage: the email it shows and its computed state
    pageSocket,       \* EmailQueuePage: its websocket.onmessage and query cache
    dashboards,       \* PanelDashboard of each panel: its query cache and pick-up
    flights,          \* handlers suspended at an await: request -> its locals
    patches,          \* number of PATCH requests served so far
    last,             \* the request served last, with its response status
    prev              \* the successful assign-panel served just before last, if any

roomVars == <<rooms, roomCurrentId, panels, panelCurrentId>>
candidateVars == <<candidates, candidateCurrentId, feedbacks, feedbackCurrentId>>
accountVars == <<users, userCurrentId, rolePermissions, rolePermissionCurrentId, clock>>
stepVars == <<pageSocket, dashboards, flights>>
vars == <<roomVars, candidateVars, accountVars, issued, channels, page, stepVars,
          patches, last, prev>>

---------------------------------------------------------------------------
(* Bounds of the model *)

MaxRooms == 4       \* rooms ever created (the three seeded ones included)
MaxPanels == 2      \* panels ever created (the seeded one included)
MaxPatches == 1     \* PATCH requests served in one behaviour
MaxCandidates == 2  \* candidates ever created
MaxFeedbacks == 2   \* feedback submissions ever recorded
MaxUsers == 5       \* users ever created (the four seeded ones included)
MaxRolePermissions == 5 \* role permissions ever created (the four seeded ones included)
MaxClock == 2       \* latest clock reading
MaxServed == 3      \* requests served while viewers connect and disconnect
MaxFlights == 2     \* requests whose handlers run step by step
MaxClicks == 1      \* pick-ups begun on one panel dashboard

---------------------------------------------------------------------------
(* Generic helpers *)

\* { ...existing, ...updates }
Merge(existing, updates) ==
    [f \in (DOMAIN existing) \cup (DOMAIN updates) |->
        IF f \in DOMAIN updates THEN updates[f] ELSE existing[f]]

\* Array.prototype.includes
Includes(list, x) == \E i \in 1..Len(list) : list[i] = x

\* Map.set(key, value)
MapSet(m, key, value) ==
    [k \in (DOMAIN m) \cup {key} |-> IF k = key THEN value ELSE m[k]]

Min(S) == CHOOSE m \in S : \A n \in S : m <= n

Null == 0       \* null in a reference field (identifiers start at 1)

\* Array.from(map.values()) visits the keys in insertion order; keys are
\* handed out by an increasing counter, so that is ascending key order.
RECURSIVE KeysInOrder(_)
KeysInOrder(S) ==
    IF S = {} THEN <<>> ELSE <<Min(S)>> \o KeysInOrder(S \ {Min(S)})

---------------------------------------------------------------------------
(* MemStorage: panels and rooms.  A store is [rooms |-> .., panels |-> ..] *)

updatePanel(st, id, updates) ==
    IF id \notin DOMAIN st.panels THEN st
    ELSE [st EXCEPT !.panels = MapSet(@, id, Merge(st.panels[id], updates))]

updateRoom(st, id, updates) ==
    IF id \notin DOMAIN st.rooms THEN st
    ELSE [st EXCEPT !.rooms = MapSet(@, id, Merge(st.rooms[id], updates))]

\* Returns [st |-> the store afterwards, found |-> a room was returned]
assignPanelToRoom(st, roomId, panelId) ==
    IF roomId \notin DOMAIN st.rooms THEN [st |-> st, found |-> FALSE]
    ELSE IF panelId \notin DOMAIN st.panels THEN [st |-> st, found |-> FALSE]
    ELSE LET room == st.rooms[roomId]
             currentAssignedPanels == room.assignedPanels
         IN IF Includes(currentAssignedPanels, panelId)
            THEN [st |-> st, found |-> TRUE]
            ELSE LET updated == Merge(room,
                        [assignedPanels |-> Append(currentAssignedPanels, panelId),
                         isOccupied |-> TRUE])
                     st1 == [st EXCEPT !.rooms = MapSet(@, roomId, updated)]
                 IN [st |-> updatePanel(st1, panelId, [roomNo |-> room.roomNumber]),
                     found |-> TRUE]

\* removePanelFromRoom that forgets to recompute isOccupied
removePanelFromRoom_StaysOccupied(st, roomId, panelId) ==
    IF roomId \notin DOMAIN st.rooms THEN [st |-> st, found |-> FALSE]
    ELSE LET room == st.rooms[roomId]
         IN IF ~Includes(room.assignedPanels, panelId)
            THEN [st |-> st, found |-> TRUE]
            ELSE LET updated == Merge(room,
                        [assignedPanels |->
                            SelectSeq(room.assignedPanels, LAMBDA id : id # panelId)])
                     st1 == [st EXCEPT !.rooms = MapSet(@, roomId, updated)]
                 IN [st |-> IF panelId \in DOMAIN st1.panels
                               /\ st1.panels[panelId].roomNo = room.roomNumber
                            THEN updatePanel(st1, panelId, [roomNo |-> ""])
                            ELSE st1,
                     found |-> TRUE]

removePanelFromRoom(st, roomId, panelId) ==
    IF roomId \notin DOMAIN st.rooms THEN [st |-> st, found |-> FALSE]
    ELSE LET room == st.rooms[roomId]
             currentAssignedPanels == room.assignedPanels
         IN IF ~Includes(currentAssignedPanels, panelId)
            THEN [st |-> st, found |-> TRUE]
            ELSE LET updatedAssignedPanels ==
                        SelectSeq(currentAssignedPanels, LAMBDA id : id # panelId)
                     updated == Merge(room,
                        [assignedPanels |-> updatedAssignedPanels,
                         isOccupied |-> Len(updatedAssignedPanels) > 0])
                     st1 == [st EXCEPT !.rooms = MapSet(@, roomId, updated)]
                 IN [st |-> IF panelId \in DOMAIN st1.panels
                               /\ st1.panels[panelId].roomNo = room.roomNumber
                            THEN updatePanel(st1, panelId, [roomNo |-> ""])
                            ELSE st1,
                     found |-> TRUE]


\* MemStorage.createRoom: isOccupied ?? false, assignedPanels ?? [] are filled
\* by the caller's choice of insertRoom below.
createRoom(st, id, insertRoom) ==
    [st EXCEPT !.rooms = MapSet(@, id, Merge(insertRoom, [id |-> id]))]

\* MemStorage.createPanel: currentCandidate ?? null
createPanel(st, id, insertPanel) ==
    [st EXCEPT !.panels = MapSet(@, id,
        Merge(insertPanel,
            [id |-> id,
             currentCandidate |-> IF "currentCandidate" \in DOMAIN insertPanel
                                  THEN insertPanel.currentCandidate ELSE Null]))]

\* MemStorage.initializeData: one panel and three rooms
SeedPanels ==
    (1 :> [id |-> 1, roomNo |-> "101", currentCandidate |-> Null])

SeedRooms ==
    (1 :> [id |-> 1, roomNumber |-> "101", isOccupied |-> TRUE, assignedPanels |-> <<1>>])
    @@ (2 :> [id |-> 2, roomNumber |-> "102", isOccupied |-> FALSE, assignedPanels |-> <<>>])
    @@ (3 :> [id |-> 3, roomNumber |-> "201", isOccupied |-> FALSE, assignedPanels |-> <<>>])

---------------------------------------------------------------------------
(* MemStorage: candidates and feedback *)

\* MemStorage.updateCandidate on the candidates map
updateCandidate(cands, id, updates) ==
    IF id \notin DOMAIN cands THEN cands
    ELSE MapSet(cands, id, Merge(cands[id], updates))

\* MemStorage.createCandidate: status || 'registered', currentRound || 'gd'
createCandidate(cands, id, insertCandidate) ==
    MapSet(cands, id,
        Merge(insertCandidate,
            [id |-> id,
             status |-> IF insertCandidate.status = "" THEN "registered"
                        ELSE insertCandidate.status,
             currentRound |-> IF insertCandidate.currentRound = "" THEN "gd"
                              ELSE insertCandidate.currentRound]))

\* MemStorage.getCandidates: the stored candidates in insertion order
getCandidates(cands) ==
    LET keys == KeysInOrder(DOMAIN cands)
    IN [i \in 1..Len(keys) |-> cands[keys[i]]]

\* MemStorage.getCandidateByEmail: <<the first candidate with the email>>, or
\* <<>> when there is none
getCandidateByEmail(cands, email) ==
    LET found == SelectSeq(getCandidates(cands), LAMBDA c : c.email = email)
    IN IF found = <<>> THEN <<>> ELSE <<Head(found)>>

\* MemStorage.getCandidateBySerialNo: <<the first candidate with the serial
\* number>>, or <<>> when there is none
getCandidateBySerialNo(cands, serialNo) ==
    LET found == SelectSeq(getCandidates(cands), LAMBDA c : c.serialNo = serialNo)
    IN IF found = <<>> THEN <<>> ELSE <<Head(found)>>

\* MemStorage.createFeedback
createFeedback(fbs, id, insertFeedback) ==
    MapSet(fbs, id, Merge(insertFeedback, [id |-> id]))

\* String.prototype.padStart with a one-character padString
RECURSIVE padStart(_, _, _)
padStart(str, targetLength, padString) ==
    IF Len(str) >= targetLength THEN str
    ELSE padStart(padString \o str, targetLength, padString)

\* `WD-${(candidates.length + 1).toString().padStart(3, '0')}`
GenerateSerialNo(cands) ==
    "WD-" \o padStart(ToString(Len(getCandidates(cands)) + 1), 3, "0")

---------------------------------------------------------------------------
(* MemStorage: users and role permissions.  An optional field of a request *)
(* body is <<>> when omitted and <<v>> when given.                         *)

\* Map.delete(key)
MapDelete(m, key) == [k \in (DOMAIN m) \ {key} |-> m[k]]

\* MemStorage.createUser: role || 'panel', isActive ?? true, createdAt = new Date()
createUser(us, id, insertUser, now) ==
    MapSet(us, id,
        Merge(insertUser,
            [id |-> id,
             role |-> IF insertUser.role = "" THEN "panel" ELSE insertUser.role,
             isActive |-> IF insertUser.isActive = <<>> THEN TRUE
                          ELSE insertUser.isActive[1],
             createdAt |-> now]))

\* An update that flips isActive when the updates do not name it
updateUser_TogglesActive(us, id, updates) ==
    IF id \notin DOMAIN us THEN us
    ELSE MapSet(us, id, Merge(Merge(us[id], [isActive |-> ~us[id].isActive]), updates))

updateUser(us, id, updates) ==
    IF id \notin DOMAIN us THEN us
    ELSE MapSet(us, id, Merge(us[id], updates))

deleteUser(us, id) == MapDelete(us, id)

\* MemStorage.createRolePermission: createdAt = updatedAt = new Date()
createRolePermission(rps, id, insertRolePermission, now) ==
    MapSet(rps, id,
        [id |-> id, role |-> insertRolePermission.role,
         createdAt |-> now, updatedAt |-> now])

\* An update that also resets createdAt
updateRolePermission_TouchesCreatedAt(rps, id, updates, now) ==
    IF id \notin DOMAIN rps THEN rps
    ELSE MapSet(rps, id, Merge(Merge(rps[id], updates),
                               [updatedAt |-> now, createdAt |-> now]))

\* MemStorage.updateRolePermission: { ...existing, ...updates, updatedAt: new Date() }
updateRolePermission(rps, id, updates, now) ==
    IF id \notin DOMAIN rps THEN rps
    ELSE MapSet(rps, id, Merge(Merge(rps[id], updates), [updatedAt |-> now]))

deleteRolePermission(rps, id) == MapDelete(rps, id)

\* MemStorage.initializeData: four role permissions and four users, created
\* at the construction of the store (clock reading 0)
SeedRolePermissions ==
    (1 :> [id |-> 1, role |-> "admin", createdAt |-> 0, updatedAt |-> 0])
    @@ (2 :> [id |-> 2, role |-> "panel", createdAt |-> 0, updatedAt |-> 0])
    @@ (3 :> [id |-> 3, role |-> "operations_lead", createdAt |-> 0, updatedAt |-> 0])
    @@ (4 :> [id |-> 4, role |-> "hr", createdAt |-> 0, updatedAt |-> 0])

SeedUsers ==
    (1 :> [id |-> 1, role |-> "admin", isActive |-> TRUE, createdAt |-> 0])
    @@ (2 :> [id |-> 2, role |-> "panel", isActive |-> TRUE, createdAt |-> 0])
    @@ (3 :> [id |-> 3, role |-> "hr", isActive |-> TRUE, createdAt |-> 0])
    @@ (4 :> [id |-> 4, role |-> "operations_lead", isActive |-> TRUE, createdAt |-> 0])

---------------------------------------------------------------------------
(* The WebSocket server.  A channel is one viewer's connection to /ws/app: *)
(* readyState is that of its socket in wss.clients (CLOSED: it is not in   *)
(* the set), received the events sent to it.  Two history fields follow    *)
(* each viewer from its first connection on: count, the number of events   *)
(* broadcast since then, and missed, the events not sent to it.  An event  *)
(* is [type, id of the entity in data, n: its number for the viewer].      *)

OPEN == 1
CLOSING == OPEN + 1
CLOSED == OPEN + 2

\* A broadcast that sends to every client of the set, whatever its readyState
broadcastUpdate_EveryClient(chs, type, id) ==
    [c \in DOMAIN chs |->
        [chs[c] EXCEPT !.received = Append(@, [type |-> type, id |-> id,
                                               n |-> chs[c].count + 1]),
                       !.count = @ + 1]]

\* broadcastUpdate(type, data): client.send to the clients whose readyState is OPEN
broadcastUpdate(chs, type, id) ==
    [c \in DOMAIN chs |->
        LET event == [type |-> type, id |-> id, n |-> chs[c].count + 1]
        IN IF chs[c].readyState = OPEN
           THEN [chs[c] EXCEPT !.received = Append(@, event), !.count = @ + 1]
           ELSE [chs[c] EXCEPT !.missed = Append(@, event), !.count = @ + 1]]

\* The broadcastUpdate calls of one handler, in order; events are [type, id]
RECURSIVE Broadcasts(_, _)
Broadcasts(chs, events) ==
    IF DOMAIN chs = {} \/ events = <<>> THEN chs
    ELSE Broadcasts(broadcastUpdate(chs, Head(events).type, Head(events).id),
                    Tail(events))

\* A connection that replays to the viewer what it missed
connection_Replays(chs, c) ==
    IF c \in DOMAIN chs
    THEN [chs EXCEPT ![c] = [@ EXCEPT !.readyState = OPEN,
                                      !.received = @ \o chs[c].missed]]
    ELSE MapSet(chs, c, [readyState |-> OPEN, received |-> <<>>,
                         missed |-> <<>>, count |-> 0])

\* wss.on('connection'): the socket joins wss.clients in state OPEN; the
\* handler registers listeners and sends nothing
connection(chs, c) ==
    IF c \in DOMAIN chs
    THEN [chs EXCEPT ![c] = [@ EXCEPT !.readyState = OPEN]]
    ELSE MapSet(chs, c, [readyState |-> OPEN, received |-> <<>>,
                         missed |-> <<>>, count |-> 0])

---------------------------------------------------------------------------
(* POST /api/feedback.  A nextRound is <<>> (null or omitted) or <<s>>.    *)

\* let status: the candidate status the decision leads to
DecisionStatus(decision) ==
    IF decision = "next" THEN "in_queue"
    ELSE IF decision = "reject" THEN "rejected"
    ELSE "in_queue"

\* let currentRound: set only under decision next; <<>> stands for undefined
DecisionRound(decision, nextRound) ==
    IF decision = "next" THEN nextRound ELSE <<>>

\* { status, ...(currentRound && { currentRound }), assignedPanel: null }
\* ("" is falsy, so an empty nextRound spreads nothing)
FeedbackUpdates(decision, nextRound) ==
    LET currentRound == DecisionRound(decision, nextRound)
    IN Merge([status |-> DecisionStatus(decision), assignedPanel |-> Null],
             IF currentRound # <<>> /\ currentRound[1] # ""
             THEN [currentRound |-> currentRound[1]]
             ELSE <<>>)

\* The candidates map after the handler: the candidate is looked up by the
\* feedback's candidateId and updated under the id field of what was found.
FeedbackRoute(cands, candidateId, decision, nextRound) ==
    IF candidateId \in DOMAIN cands
    THEN updateCandidate(cands, cands[candidateId].id, FeedbackUpdates(decision, nextRound))
    ELSE cands

---------------------------------------------------------------------------
(* EmailQueuePage: the queue position effect *)

QueueStatuses == {"registered", "in_queue"}

\* Array.prototype.sort with the comparator a.timestamp - b.timestamp: a stable
\* sort, computed here by insertion from the right.
\* An insertion that puts a candidate behind those of the same timestamp
RECURSIVE InsertByTimestamp_BehindEqual(_, _)
InsertByTimestamp_BehindEqual(c, sorted) ==
    IF sorted = <<>> THEN <<c>>
    ELSE IF c.timestamp - Head(sorted).timestamp < 0
         THEN <<c>> \o sorted
         ELSE <<Head(sorted)>> \o InsertByTimestamp_BehindEqual(c, Tail(sorted))

RECURSIVE InsertByTimestamp(_, _)
InsertByTimestamp(c, sorted) ==
    IF sorted = <<>> THEN <<c>>
    ELSE IF c.timestamp - Head(sorted).timestamp <= 0
         THEN <<c>> \o sorted
         ELSE <<Head(sorted)>> \o InsertByTimestamp(c, Tail(sorted))

RECURSIVE SortByTimestamp(_)
SortByTimestamp(list) ==
    IF list = <<>> THEN <<>>
    ELSE InsertByTimestamp(Head(list), SortByTimestamp(Tail(list)))

\* Array.prototype.findIndex, 0-based, -1 when there is none
FindIndexByEmail(list, email) ==
    IF \E i \in 1..Len(list) : list[i].email = email
    THEN Min({i \in 1..Len(list) : list[i].email = email}) - 1
    ELSE -1

\* The effect's result for the fetched candidate and the fetched list
QueueEffect(candidate, allCandidates) ==
    LET sameRoundCandidates ==
            SelectSeq(allCandidates,
                LAMBDA c : c.currentRound = candidate.currentRound
                           /\ c.status \in QueueStatuses)
        sortedCandidates == SortByTimestamp(sameRoundCandidates)
        position == FindIndexByEmail(sortedCandidates, candidate.email)
    IN [queuePosition |-> IF position # -1 THEN position + 1 ELSE 0,
        candidatesAhead |-> [i \in 1..(IF position > 0 THEN position ELSE 0) |->
                                sortedCandidates[i].id]]

\* websocket.onmessage of EmailQueuePage: TRUE when the message makes the page
\* invalidate its two queries; candidateId is the id of the page's candidate
onmessage(data, candidateId) ==
    \/ (data.type = "CANDIDATE_UPDATED" /\ data.id = candidateId)
    \/ data.type = "CANDIDATE_CREATED"
    \/ data.type = "PANEL_UPDATED"

---------------------------------------------------------------------------
(* PanelDashboard of a panel's user.  A dashboard is [userPanel: the panel *)
(* as the /api/panels query cached it, candidates: the list the            *)
(* /api/candidates query cached, currentCandidate: the id of the candidate *)
(* held in the component's state (Null: none), pickUp: <<the candidate     *)
(* whose PATCH is still to be sent>> while a pick-up is under way, clicks: *)
(* the pick-ups begun].                                                    *)

\* candidates.filter(in_queue or registered, not assigned to another
\* panel).sort(by timestamp)
queueCandidates(d) ==
    SortByTimestamp(SelectSeq(d.candidates,
        LAMBDA c : /\ c.status \in {"in_queue", "registered"}
                   /\ (c.assignedPanel = Null \/ c.assignedPanel = d.userPanel.id)))

\* useEffect on [userPanel, candidates]: the state follows the panel's
\* currentCandidate when the cached list has that candidate
CurrentCandidateEffect(d) ==
    IF d.userPanel.currentCandidate # Null
    THEN IF \E i \in 1..Len(d.candidates) :
                d.candidates[i].id = d.userPanel.currentCandidate
         THEN [d EXCEPT !.currentCandidate = d.userPanel.currentCandidate]
         ELSE d
    ELSE [d EXCEPT !.currentCandidate = Null]

\* Both queries fetched (again) and the effect run
Fetched(d, panel, cands) ==
    CurrentCandidateEffect([d EXCEPT !.userPanel = panel,
                                     !.candidates = getCandidates(cands)])

---------------------------------------------------------------------------
(* Route handlers of the room/panel assignment.  Each returns              *)
(* [st |-> the store afterwards, status |-> the HTTP status answered].     *)

\* The loop "for (const room of panelAssignedRooms)" of the assign-panel
\* route: roomIds are the id fields of the rooms found listing the panel.
RECURSIVE RemoveFromOtherRooms(_, _, _)
RemoveFromOtherRooms(st, roomIds, panelId) ==
    IF roomIds = <<>> THEN st
    ELSE RemoveFromOtherRooms(removePanelFromRoom(st, Head(roomIds), panelId).st,
                              Tail(roomIds), panelId)

\* rooms.filter(room => room.assignedPanels.includes(panelId) && room.id !== roomId)
panelAssignedRooms(st, roomId, panelId) ==
    LET keys == SelectSeq(KeysInOrder(DOMAIN st.rooms),
                    LAMBDA k : Includes(st.rooms[k].assignedPanels, panelId)
                               /\ st.rooms[k].id # roomId)
    IN [i \in 1..Len(keys) |-> st.rooms[keys[i]].id]

\* POST /api/rooms/:roomId/assign-panel/:panelId
AssignPanelRoute(st, roomId, panelId) ==
    LET st1 == RemoveFromOtherRooms(st, panelAssignedRooms(st, roomId, panelId), panelId)
        st2 == IF panelId \in DOMAIN st1.panels /\ roomId \in DOMAIN st1.rooms
               THEN updatePanel(st1, panelId, [roomNo |-> st1.rooms[roomId].roomNumber])
               ELSE st1
        updatedRoom == assignPanelToRoom(st2, roomId, panelId)
    IN [st |-> updatedRoom.st, status |-> IF updatedRoom.found THEN 200 ELSE 404]

\* POST /api/rooms/:roomId/remove-panel/:panelId
RemovePanelRoute(st, roomId, panelId) ==
    LET st1 == updatePanel(st, panelId, [roomNo |-> ""])
        updatedRoom == removePanelFromRoom(st1, roomId, panelId)
    IN [st |-> updatedRoom.st, status |-> IF updatedRoom.found THEN 200 ELSE 404]

\* The events the assign-panel route broadcasts: ROOM_UPDATED with
\* getRoom(room.id) for every room the panel was detached from, then, unless
\* it answers 404, ROOM_UPDATED with the room and PANEL_UPDATED with the panel.
AssignPanelEvents(st, roomId, panelId) ==
    LET detached == panelAssignedRooms(st, roomId, panelId)
        r == AssignPanelRoute(st, roomId, panelId)
    IN [i \in 1..Len(detached) |->
            [type |-> "ROOM_UPDATED",
             id |-> IF detached[i] \in DOMAIN st.rooms
                    THEN st.rooms[detached[i]].id ELSE Null]]
       \o (IF r.status = 200
           THEN <<[type |-> "ROOM_UPDATED", id |-> r.st.rooms[roomId].id],
                  [type |-> "PANEL_UPDATED", id |-> r.st.panels[panelId].id]>>
           ELSE <<>>)

\* The events the remove-panel route broadcasts unless it answers 404
RemovePanelEvents(st, roomId, panelId) ==
    LET r == RemovePanelRoute(st, roomId, panelId)
    IN IF r.status = 200
       THEN <<[type |-> "ROOM_UPDATED", id |-> r.st.rooms[roomId].id],
              [type |-> "PANEL_UPDATED",
               id |-> IF panelId \in DOMAIN r.st.panels
                      THEN r.st.panels[panelId].id ELSE Null]>>
       ELSE <<>>

---------------------------------------------------------------------------
(* Handlers step by step.  An async handler runs from one await to the     *)
(* next without interruption; at an await another request's handler may    *)
(* run.  A flight is the locals of a handler suspended at an await: pc is  *)
(* the storage call awaited (the call itself has run: MemStorage's methods *)
(* run to completion when called) and status the HTTP status once it has   *)
(* answered.  Two history fields follow the handler: written, the entities *)
(* [kind, id] its storage mutations were called for so far, and emitted,   *)
(* the events it has broadcast so far.  A resumption returns [st: the      *)
(* store, f: the flight, events: the broadcasts] afterwards.               *)

Wrote(f, kind, id) == Append(f.written, [kind |-> kind, id |-> id])

\* POST /api/rooms/:roomId/assign-panel/:panelId up to "await storage.getRooms()";
\* panelAssignedRooms is the filter of the rooms read by that call
AssignPanelBegin(st, roomId, panelId) ==
    [op |-> "assign-panel", roomId |-> roomId, panelId |-> panelId,
     pc |-> "getRooms",
     panelAssignedRooms |-> panelAssignedRooms(st, roomId, panelId),
     panel |-> FALSE, room |-> <<>>, updatedRoom |-> FALSE, data |-> Null,
     written |-> <<>>, emitted |-> <<>>, status |-> 0]

\* "await storage.removePanelFromRoom(room.id, panelId)" for the next room
\* of the loop
CallRemovePanelFromRoom(st, f) ==
    [st |-> removePanelFromRoom(st, Head(f.panelAssignedRooms), f.panelId).st,
     f |-> [f EXCEPT !.pc = "removePanelFromRoom",
                     !.written = Wrote(f, "room", Head(f.panelAssignedRooms))],
     events |-> <<>>]

\* "const panel = await storage.getPanel(panelId)"
CallGetPanel(st, f) ==
    [st |-> st,
     f |-> [f EXCEPT !.pc = "getPanel", !.panel = f.panelId \in DOMAIN st.panels],
     events |-> <<>>]

\* "const updatedRoom = await storage.assignPanelToRoom(roomId, panelId)"
CallAssignPanelToRoom(st, f) ==
    LET updatedRoom == assignPanelToRoom(st, f.roomId, f.panelId)
    IN [st |-> updatedRoom.st,
        f |-> [f EXCEPT !.pc = "assignPanelToRoom",
                        !.updatedRoom = updatedRoom.found,
                        !.data = IF updatedRoom.found
                                 THEN updatedRoom.st.rooms[f.roomId].id ELSE Null,
                        !.written = Wrote(f, "room", f.roomId)
                                    \o <<[kind |-> "panel", id |-> f.panelId]>>],
        events |-> <<>>]

\* The loop "for (const room of panelAssignedRooms)" goes on, or is left
NextOfLoop(st, f) ==
    IF f.panelAssignedRooms # <<>> THEN CallRemovePanelFromRoom(st, f)
    ELSE CallGetPanel(st, f)

\* The assign-panel handler resumed at the await it is suspended at
AssignPanelResume(st, f) ==
    CASE f.pc = "getRooms" -> NextOfLoop(st, f)
      [] f.pc = "removePanelFromRoom" ->
            \* broadcastUpdate('ROOM_UPDATED', await storage.getRoom(room.id))
            LET id == Head(f.panelAssignedRooms)
            IN [st |-> st,
                f |-> [f EXCEPT !.pc = "getRoomOfLoop",
                                !.data = IF id \in DOMAIN st.rooms
                                         THEN st.rooms[id].id ELSE Null],
                events |-> <<>>]
      [] f.pc = "getRoomOfLoop" ->
            LET event == [type |-> "ROOM_UPDATED", id |-> f.data]
            IN [NextOfLoop(st, [f EXCEPT !.panelAssignedRooms = Tail(@),
                                         !.emitted = Append(@, event)])
                    EXCEPT !.events = <<event>>]
      [] f.pc = "getPanel" ->
            IF f.panel
            THEN [st |-> st,
                  f |-> [f EXCEPT !.pc = "getRoom",
                                  !.room = IF f.roomId \in DOMAIN st.rooms
                                           THEN <<st.rooms[f.roomId].roomNumber>>
                                           ELSE <<>>],
                  events |-> <<>>]
            ELSE CallAssignPanelToRoom(st, f)
      [] f.pc = "getRoom" ->
            IF f.room # <<>>
            THEN [st |-> updatePanel(st, f.panelId, [roomNo |-> f.room[1]]),
                  f |-> [f EXCEPT !.pc = "updatePanel",
                                  !.written = Wrote(f, "panel", f.panelId)],
                  events |-> <<>>]
            ELSE CallAssignPanelToRoom(st, f)
      [] f.pc = "updatePanel" -> CallAssignPanelToRoom(st, f)
      [] f.pc = "assignPanelToRoom" ->
            IF ~f.updatedRoom
            THEN [st |-> st, f |-> [f EXCEPT !.pc = "done", !.status = 404],
                  events |-> <<>>]
            ELSE LET event == [type |-> "ROOM_UPDATED", id |-> f.data]
                 IN [st |-> st,
                     f |-> [f EXCEPT !.pc = "getPanelOfBroadcast",
                                     !.data = IF f.panelId \in DOMAIN st.panels
                                              THEN st.panels[f.panelId].id ELSE Null,
                                     !.emitted = Append(@, event)],
                     events |-> <<event>>]
      [] f.pc = "getPanelOfBroadcast" ->
            LET event == [type |-> "PANEL_UPDATED", id |-> f.data]
            IN [st |-> st,
                f |-> [f EXCEPT !.pc = "done", !.status = 200,
                                !.emitted = Append(@, event)],
                events |-> <<event>>]

\* POST /api/feedback up to "await storage.createFeedback(feedbackData)":
\* the feedback is stored under newFeedback by that call
FeedbackBegin(newFeedback, candidateId, decision, nextRound) ==
    [op |-> "feedback", candidateId |-> candidateId, decision |-> decision,
     nextRound |-> nextRound, newFeedback |-> newFeedback, candidate |-> <<>>,
     pc |-> "createFeedback",
     written |-> <<[kind |-> "feedback", id |-> newFeedback]>>,
     emitted |-> <<>>, status |-> 0]

\* broadcastUpdate('FEEDBACK_CREATED', newFeedback); res.status(201)
FeedbackAnswer(cands, f) ==
    LET event == [type |-> "FEEDBACK_CREATED", id |-> f.newFeedback]
    IN [cands |-> cands,
        f |-> [f EXCEPT !.pc = "done", !.status = 201, !.emitted = Append(@, event)],
        events |-> <<event>>]

\* "const candidate = await storage.getCandidate(feedbackData.candidateId)";
\* candidate is <<the id field of the candidate found>>, or <<>>
CallGetCandidate(cands, f) ==
    [f EXCEPT !.pc = "getCandidate",
              !.candidate = IF f.candidateId \in DOMAIN cands
                            THEN <<cands[f.candidateId].id>> ELSE <<>>]

\* "await storage.updateCandidate(candidate.id, { status, ... })"
CallUpdateCandidate(cands, f) ==
    updateCandidate(cands, f.candidate[1], FeedbackUpdates(f.decision, f.nextRound))

\* A feedback handler that broadcasts as soon as the feedback is stored and
\* updates the candidate afterwards
FeedbackResume_BroadcastsFirst(cands, f) ==
    CASE f.pc = "createFeedback" ->
            [FeedbackAnswer(cands, CallGetCandidate(cands, f))
                EXCEPT !.f.pc = "getCandidate", !.f.status = 0]
      [] f.pc = "getCandidate" ->
            IF f.candidate # <<>>
            THEN [cands |-> CallUpdateCandidate(cands, f),
                  f |-> [f EXCEPT !.pc = "updateCandidate",
                                  !.written = Wrote(f, "candidate", f.candidate[1])],
                  events |-> <<>>]
            ELSE [cands |-> cands, f |-> [f EXCEPT !.pc = "done", !.status = 201],
                  events |-> <<>>]
      [] f.pc = "updateCandidate" ->
            [cands |-> cands, f |-> [f EXCEPT !.pc = "done", !.status = 201],
             events |-> <<>>]

\* The feedback handler resumed at the await it is suspended at
FeedbackResume(cands, f) ==
    CASE f.pc = "createFeedback" ->
            [cands |-> cands, f |-> CallGetCandidate(cands, f), events |-> <<>>]
      [] f.pc = "getCandidate" ->
            IF f.candidate # <<>>
            THEN [cands |-> CallUpdateCandidate(cands, f),
                  f |-> [f EXCEPT !.pc = "updateCandidate",
                                  !.written = Wrote(f, "candidate", f.candidate[1])],
                  events |-> <<>>]
            ELSE FeedbackAnswer(cands, f)
      [] f.pc = "updateCandidate" -> FeedbackAnswer(cands, f)

---------------------------------------------------------------------------
(* POST /api/google-sheets/control with action sync.  A candidateData is   *)
(* [email, timestamp, status, currentRound]; "" is an omitted string and   *)
(* timestamp 0 an omitted timestamp.  The result is [cands, currentId,     *)
(* events]: the candidates map, the id counter and the broadcasts so far.  *)

\* One turn of the loop "for (const candidateData of candidates)"
SyncOne(acc, candidateData, now) ==
    LET existingCandidate == getCandidateByEmail(acc.cands, candidateData.email)
    IN IF existingCandidate # <<>>
       THEN LET id == existingCandidate[1].id
                updates ==
                    Merge(IF candidateData.status # ""
                          THEN [status |-> candidateData.status] ELSE <<>>,
                          IF candidateData.currentRound # ""
                          THEN [currentRound |-> candidateData.currentRound] ELSE <<>>)
                cands1 == updateCandidate(acc.cands, id, updates)
            IN [cands |-> cands1, currentId |-> acc.currentId,
                events |-> Append(acc.events,
                    [type |-> "CANDIDATE_UPDATED",
                     id |-> IF id \in DOMAIN cands1 THEN cands1[id].id ELSE Null])]
       ELSE [cands |-> createCandidate(acc.cands, acc.currentId,
                        [serialNo |-> GenerateSerialNo(acc.cands),
                         email |-> candidateData.email,
                         timestamp |-> IF candidateData.timestamp # 0
                                       THEN candidateData.timestamp ELSE now,
                         status |-> IF candidateData.status # ""
                                    THEN candidateData.status ELSE "registered",
                         currentRound |-> IF candidateData.currentRound # ""
                                          THEN candidateData.currentRound ELSE "gd",
                         assignedPanel |-> Null]),
             currentId |-> acc.currentId + 1,
             events |-> Append(acc.events,
                            [type |-> "CANDIDATE_CREATED", id |-> acc.currentId])]

RECURSIVE SyncRoute(_, _, _)
SyncRoute(acc, candidateDatas, now) ==
    IF candidateDatas = <<>> THEN acc
    ELSE SyncRoute(SyncOne(acc, Head(candidateDatas), now), Tail(candidateDatas), now)

---------------------------------------------------------------------------
(* Inputs of the requests *)

ReqRoomIds == 1..MaxRooms       \* :roomId / :id, existing or not
ReqPanelIds == 1..MaxPanels     \* :panelId / :id, existing or not

PanelLists == {<<>>, <<1>>}
PatchedIds == {1, 2}

NewRoomNumbers == {"301"}
NewPanelRoomNos == {""}

\* bodies of PATCH /api/rooms/:id (any subset of a room's fields is accepted)
RoomUpdates ==
    {[id |-> k] : k \in PatchedIds}
    \cup {[isOccupied |-> b] : b \in BOOLEAN}
    \cup {[assignedPanels |-> l] : l \in PanelLists}

\* bodies of PATCH /api/panels/:id
PanelUpdates ==
    {[id |-> k] : k \in PatchedIds} \cup {[roomNo |-> n] : n \in NewPanelRoomNos}

\* bodies of PATCH /api/candidates/:id; the panel dashboard's pick-up sends
\* { status: "in_process", assignedPanel }
CandidateUpdates ==
    {[id |-> k] : k \in PatchedIds}
    \cup {[status |-> "in_process", assignedPanel |-> 1]}
    \cup {[status |-> "completed"], [currentRound |-> "screening"]}

Emails == {"a@x.io", "b@x.io"}
Times == {50, 100}
Decisions == {"next", "reject", "hold"}
NextRounds == {<<>>, <<"">>, <<"hr">>}
PostStatuses == {"", "in_queue", "in_process"}    \* "": omitted
PostRounds == {"", "screening"}                   \* "": omitted
ReqCandidateIds == 1..MaxCandidates

\* KanbanBoard: the ids of the stages, sent as the status of a dragged candidate
StageIds == {"registered", "screening", "technical", "hr", "selected", "rejected"}

\* bodies of PATCH /api/candidates/:id: updateCandidateStatus of the Kanban
\* board, and a body naming serialNo
KanbanUpdates == {[status |-> s] : s \in {"registered", "selected"}}
SerialNoUpdates == {[serialNo |-> "WD-002"]}

\* serialNo of the bodies of POST /api/candidates
PostSerialNos == {"WD-001", "WD-002"}

\* candidates arrays of the sync action: one candidateData
SyncCandidates ==
    {<<[email |-> e, timestamp |-> 0, status |-> s, currentRound |-> ""]>> :
        e \in Emails, s \in {"", "completed"}}

\* :id of the user and role permission routes, existing or not
ReqUserIds == (MaxUsers - 1)..MaxUsers
ReqRolePermissionIds == (MaxRolePermissions - 1)..MaxRolePermissions

\* bodies of PATCH /api/users/:id and PATCH /api/role-permissions/:id
UserUpdates == {[id |-> 1], [isActive |-> FALSE], [role |-> "hr"]}
RolePermissionUpdates == {[id |-> 1], [role |-> "guest"], [updatedAt |-> 0]}

\* The pages that open a WebSocket to /ws/app
Viewers == {"EmailQueuePage", "PanelDashboard"}

---------------------------------------------------------------------------
(* State machine *)

Store == [rooms |-> rooms, panels |-> panels]

NoRequest == [op |-> "none", roomId |-> 0, panelId |-> 0, status |-> 0, preEmpty |-> FALSE]

\* A request on (roomId, panelId) and its answer; preEmpty: the room had no
\* assigned panel and was not occupied when the request arrived.
RoomRequest(op, roomId, panelId, status) ==
    [op |-> op, roomId |-> roomId, panelId |-> panelId, status |-> status,
     preEmpty |-> /\ roomId \in DOMAIN rooms
                  /\ rooms[roomId].assignedPanels = <<>>
                  /\ ~rooms[roomId].isOccupied]

\* Any other request and its answer
OtherRequest(op, status) ==
    [op |-> op, roomId |-> 0, panelId |-> 0, status |-> status, preEmpty |-> FALSE]

\* A feedback submission and its answer
FeedbackRequest(candidateId, decision, nextRound, status) ==
    [op |-> "feedback", candidateId |-> candidateId, decision |-> decision,
     nextRound |-> nextRound, status |-> status]

\* What prev becomes when a request is served: the request served just before
\* it is remembered when it was a successful assign-panel.
Before == IF last.op = "assign" /\ last.status = 200 THEN last ELSE NoRequest

NoPage == [email |-> "", queuePosition |-> 0, candidatesAhead |-> <<>>]

\* EmailQueuePage before it has opened its WebSocket: no candidate fetched, no
\* message handled, no query invalidated
NoSocket == [candidate |-> Null, handled |-> 0, invalidated |-> FALSE]

\* The values new Date() can return now
Nows == {t \in clock..(clock + 1) : t <= MaxClock}

\* issued after a create of the kind returned id
Issue(kind, id) == [issued EXCEPT ![kind] = Append(@, id)]

Init ==
    /\ rooms = SeedRooms
    /\ roomCurrentId = 4
    /\ panels = SeedPanels
    /\ panelCurrentId = 2
    /\ candidates = <<>>
    /\ candidateCurrentId = 1
    /\ feedbacks = <<>>
    /\ feedbackCurrentId = 1
    /\ users = SeedUsers
    /\ userCurrentId = 5
    /\ rolePermissions = SeedRolePermissions
    /\ rolePermissionCurrentId = 5
    /\ clock = 0
    /\ issued = [users |-> <<1, 2, 3, 4>>, rolePermissions |-> <<1, 2, 3, 4>>,
                 panels |-> <<1>>, rooms |-> <<1, 2, 3>>,
                 candidates |-> <<>>, feedbacks |-> <<>>]
    /\ channels = <<>>
    /\ page = NoPage
    /\ pageSocket = NoSocket
    /\ dashboards = <<>>
    /\ flights = <<>>
    /\ patches = 0
    /\ last = NoRequest
    /\ prev = NoRequest

\* POST /api/rooms
CreateRoom(roomNumber, isOccupied, assignedPanels) ==
    /\ roomCurrentId <= MaxRooms
    /\ rooms' = createRoom(Store, roomCurrentId,
                    [roomNumber |-> roomNumber, isOccupied |-> isOccupied,
                     assignedPanels |-> assignedPanels]).rooms
    /\ roomCurrentId' = roomCurrentId + 1
    /\ issued' = Issue("rooms", roomCurrentId)
    /\ channels' = broadcastUpdate(channels, "ROOM_CREATED", roomCurrentId)
    /\ last' = OtherRequest("createRoom", 201)
    /\ prev' = Before
    /\ UNCHANGED stepVars
    /\ UNCHANGED <<panels, panelCurrentId, candidateVars, accountVars, page, patches>>

\* PATCH /api/rooms/:id
PatchRoom(id, roomUpdates) ==
    /\ patches < MaxPatches
    /\ rooms' = updateRoom(Store, id, roomUpdates).rooms
    /\ patches' = patches + 1
    /\ channels' = IF id \in DOMAIN rooms
                   THEN broadcastUpdate(channels, "ROOM_UPDATED", rooms'[id].id)
                   ELSE channels
    /\ last' = OtherRequest("patchRoom", IF id \in DOMAIN rooms THEN 200 ELSE 404)
    /\ prev' = Before
    /\ UNCHANGED stepVars
    /\ UNCHANGED <<roomCurrentId, panels, panelCurrentId, candidateVars, accountVars,
                   issued, page>>

\* POST /api/panels
CreatePanel(roomNo) ==
    /\ panelCurrentId <= MaxPanels
    /\ panels' = createPanel(Store, panelCurrentId, [roomNo |-> roomNo]).panels
    /\ panelCurrentId' = panelCurrentId + 1
    /\ issued' = Issue("panels", panelCurrentId)
    /\ channels' = broadcastUpdate(channels, "PANEL_CREATED", panelCurrentId)
    /\ last' = OtherRequest("createPanel", 201)
    /\ prev' = Before
    /\ UNCHANGED stepVars
    /\ UNCHANGED <<rooms, roomCurrentId, candidateVars, accountVars, page, patches>>

\* PATCH /api/panels/:id
PatchPanel(id, panelUpdates) ==
    /\ patches < MaxPatches
    /\ panels' = updatePanel(Store, id, panelUpdates).panels
    /\ patches' = patches + 1
    /\ channels' = IF id \in DOMAIN panels
                   THEN broadcastUpdate(channels, "PANEL_UPDATED", panels'[id].id)
                   ELSE channels
    /\ last' = OtherRequest("patchPanel", IF id \in DOMAIN panels THEN 200 ELSE 404)
    /\ prev' = Before
    /\ UNCHANGED stepVars
    /\ UNCHANGED <<rooms, roomCurrentId, panelCurrentId, candidateVars, accountVars,
                   issued, page>>

\* POST /api/rooms/:roomId/assign-panel/:panelId
AssignPanel(roomId, panelId) ==
    \E r \in {AssignPanelRoute(Store, roomId, panelId)} :
       /\ rooms' = r.st.rooms
       /\ panels' = r.st.panels
       /\ channels' = Broadcasts(channels, AssignPanelEvents(Store, roomId, panelId))
       /\ last' = RoomRequest("assign", roomId, panelId, r.status)
       /\ prev' = Before
       /\ UNCHANGED stepVars
       /\ UNCHANGED <<roomCurrentId, panelCurrentId, candidateVars, accountVars,
                      issued, page, patches>>

\* POST /api/rooms/:roomId/remove-panel/:panelId
RemovePanel(roomId, panelId) ==
    \E r \in {RemovePanelRoute(Store, roomId, panelId)} :
       /\ rooms' = r.st.rooms
       /\ panels' = r.st.panels
       /\ channels' = Broadcasts(channels, RemovePanelEvents(Store, roomId, panelId))
       /\ last' = RoomRequest("remove", roomId, panelId, r.status)
       /\ prev' = Before
       /\ UNCHANGED stepVars
       /\ UNCHANGED <<roomCurrentId, panelCurrentId, candidateVars, accountVars,
                      issued, page, patches>>

\* POST /api/candidates
PostCandidate(serialNo, email, timestamp, status, currentRound, assignedPanel) ==
    /\ candidateCurrentId <= MaxCandidates
    /\ candidates' = createCandidate(candidates, candidateCurrentId,
                        [serialNo |-> serialNo, email |-> email,
                         timestamp |-> timestamp, status |-> status,
                         currentRound |-> currentRound, assignedPanel |-> assignedPanel])
    /\ candidateCurrentId' = candidateCurrentId + 1
    /\ issued' = Issue("candidates", candidateCurrentId)
    /\ channels' = broadcastUpdate(channels, "CANDIDATE_CREATED", candidateCurrentId)
    /\ last' = OtherRequest("postCandidate", 201)
    /\ prev' = Before
    /\ UNCHANGED stepVars
    /\ UNCHANGED <<roomVars, feedbacks, feedbackCurrentId, accountVars, page, patches>>

\* POST /api/candidates/manual; now is the value of new Date()
ManualCandidate(email, now) ==
    /\ candidateCurrentId <= MaxCandidates
    /\ candidates' = createCandidate(candidates, candidateCurrentId,
                        [serialNo |-> GenerateSerialNo(candidates), email |-> email,
                         timestamp |-> now, status |-> "registered",
                         currentRound |-> "gd", assignedPanel |-> Null])
    /\ candidateCurrentId' = candidateCurrentId + 1
    /\ issued' = Issue("candidates", candidateCurrentId)
    /\ channels' = broadcastUpdate(channels, "CANDIDATE_CREATED", candidateCurrentId)
    /\ last' = OtherRequest("manualCandidate", 201)
    /\ prev' = Before
    /\ UNCHANGED stepVars
    /\ UNCHANGED <<roomVars, feedbacks, feedbackCurrentId, accountVars, page, patches>>

\* POST /api/google-sheets/webhook
Webhook(email, timestamp) ==
    /\ candidateCurrentId <= MaxCandidates
    /\ candidates' = createCandidate(candidates, candidateCurrentId,
                        [serialNo |-> GenerateSerialNo(candidates), email |-> email,
                         timestamp |-> timestamp, status |-> "registered",
                         currentRound |-> "gd", assignedPanel |-> Null])
    /\ candidateCurrentId' = candidateCurrentId + 1
    /\ issued' = Issue("candidates", candidateCurrentId)
    /\ channels' = broadcastUpdate(channels, "CANDIDATE_CREATED", candidateCurrentId)
    /\ last' = OtherRequest("webhook", 201)
    /\ prev' = Before
    /\ UNCHANGED stepVars
    /\ UNCHANGED <<roomVars, feedbacks, feedbackCurrentId, accountVars, page, patches>>

\* POST /api/google-sheets/control { action: 'sync', candidates }
Sync(candidateDatas, now) ==
    \E r \in {SyncRoute([cands |-> candidates, currentId |-> candidateCurrentId,
                         events |-> <<>>], candidateDatas, now)} :
       /\ r.currentId <= MaxCandidates + 1
       /\ candidates' = r.cands
       /\ candidateCurrentId' = r.currentId
       /\ issued' = [issued EXCEPT !.candidates =
                        @ \o [i \in 1..(r.currentId - candidateCurrentId) |->
                                candidateCurrentId + i - 1]]
       /\ channels' = Broadcasts(channels, r.events)
       /\ last' = OtherRequest("sync", 200)
       /\ prev' = Before
       /\ UNCHANGED stepVars
       /\ UNCHANGED <<roomVars, feedbacks, feedbackCurrentId, accountVars, page, patches>>

\* PATCH /api/candidates/:id
PatchCandidate(id, candidateUpdates) ==
    /\ patches < MaxPatches
    /\ candidates' = updateCandidate(candidates, id, candidateUpdates)
    /\ patches' = patches + 1
    /\ channels' = IF id \in DOMAIN candidates
                   THEN broadcastUpdate(channels, "CANDIDATE_UPDATED", candidates'[id].id)
                   ELSE channels
    /\ last' = OtherRequest("patchCandidate", IF id \in DOMAIN candidates THEN 200 ELSE 404)
    /\ prev' = Before
    /\ UNCHANGED stepVars
    /\ UNCHANGED <<roomVars, candidateCurrentId, feedbacks, feedbackCurrentId,
                   accountVars, issued, page>>

\* POST /api/feedback with a body the schema accepts
SubmitFeedback(candidateId, decision, nextRound) ==
    /\ feedbackCurrentId <= MaxFeedbacks
    /\ feedbacks' = createFeedback(feedbacks, feedbackCurrentId,
                        [candidateId |-> candidateId, decision |-> decision,
                         nextRound |-> nextRound])
    /\ feedbackCurrentId' = feedbackCurrentId + 1
    /\ issued' = Issue("feedbacks", feedbackCurrentId)
    /\ candidates' = FeedbackRoute(candidates, candidateId, decision, nextRound)
    /\ channels' = broadcastUpdate(channels, "FEEDBACK_CREATED", feedbackCurrentId)
    /\ last' = FeedbackRequest(candidateId, decision, nextRound, 201)
    /\ prev' = Before
    /\ UNCHANGED stepVars
    /\ UNCHANGED <<roomVars, candidateCurrentId, accountVars, page, patches>>

\* POST /api/users with a body the schema accepts
CreateUser(role, isActive, now) ==
    /\ userCurrentId <= MaxUsers
    /\ users' = createUser(users, userCurrentId, [role |-> role, isActive |-> isActive], now)
    /\ userCurrentId' = userCurrentId + 1
    /\ clock' = now
    /\ issued' = Issue("users", userCurrentId)
    /\ channels' = broadcastUpdate(channels, "USER_CREATED", userCurrentId)
    /\ last' = OtherRequest("createUser", 201)
    /\ prev' = Before
    /\ UNCHANGED stepVars
    /\ UNCHANGED <<roomVars, candidateVars, rolePermissions, rolePermissionCurrentId,
                   page, patches>>

\* PATCH /api/users/:id
PatchUser(id, userUpdates) ==
    /\ patches < MaxPatches
    /\ users' = updateUser(users, id, userUpdates)
    /\ patches' = patches + 1
    /\ channels' = IF id \in DOMAIN users
                   THEN broadcastUpdate(channels, "USER_UPDATED", users'[id].id)
                   ELSE channels
    /\ last' = OtherRequest("patchUser", IF id \in DOMAIN users THEN 200 ELSE 404)
    /\ prev' = Before
    /\ UNCHANGED stepVars
    /\ UNCHANGED <<roomVars, candidateVars, userCurrentId, rolePermissions,
                   rolePermissionCurrentId, clock, issued, page>>

\* DELETE /api/users/:id that hands the deleted identifier out again
DeleteUser_ReleasesId(id) ==
    /\ users' = deleteUser(users, id)
    /\ userCurrentId' = IF id \in DOMAIN users THEN id ELSE userCurrentId
    /\ channels' = IF id \in DOMAIN users
                   THEN broadcastUpdate(channels, "USER_DELETED", id)
                   ELSE channels
    /\ last' = OtherRequest("deleteUser", IF id \in DOMAIN users THEN 200 ELSE 404)
    /\ prev' = Before
    /\ UNCHANGED stepVars
    /\ UNCHANGED <<roomVars, candidateVars, rolePermissions,
                   rolePermissionCurrentId, clock, issued, page, patches>>

\* DELETE /api/users/:id
DeleteUser(id) ==
    /\ users' = deleteUser(users, id)
    /\ channels' = IF id \in DOMAIN users
                   THEN broadcastUpdate(channels, "USER_DELETED", id)
                   ELSE channels
    /\ last' = OtherRequest("deleteUser", IF id \in DOMAIN users THEN 200 ELSE 404)
    /\ prev' = Before
    /\ UNCHANGED stepVars
    /\ UNCHANGED <<roomVars, candidateVars, userCurrentId, rolePermissions,
                   rolePermissionCurrentId, clock, issued, page, patches>>

\* POST /api/role-permissions with a body the schema accepts
CreateRolePermission(role, now) ==
    /\ rolePermissionCurrentId <= MaxRolePermissions
    /\ rolePermissions' = createRolePermission(rolePermissions, rolePermissionCurrentId,
                                [role |-> role], now)
    /\ rolePermissionCurrentId' = rolePermissionCurrentId + 1
    /\ clock' = now
    /\ issued' = Issue("rolePermissions", rolePermissionCurrentId)
    /\ channels' = broadcastUpdate(channels, "ROLE_PERMISSION_CREATED",
                                   rolePermissionCurrentId)
    /\ last' = OtherRequest("createRolePermission", 201)
    /\ prev' = Before
    /\ UNCHANGED stepVars
    /\ UNCHANGED <<roomVars, candidateVars, users, userCurrentId, page, patches>>

\* PATCH /api/role-permissions/:id; new Date() is read when the id is found
PatchRolePermission(id, rolePermissionUpdates, now) ==
    /\ patches < MaxPatches
    /\ rolePermissions' = updateRolePermission(rolePermissions, id,
                                rolePermissionUpdates, now)
    /\ patches' = patches + 1
    /\ clock' = IF id \in DOMAIN rolePermissions THEN now ELSE clock
    /\ channels' = IF id \in DOMAIN rolePermissions
                   THEN broadcastUpdate(channels, "ROLE_PERMISSION_UPDATED",
                                        rolePermissions'[id].id)
                   ELSE channels
    /\ last' = OtherRequest("patchRolePermission",
                            IF id \in DOMAIN rolePermissions THEN 200 ELSE 404)
    /\ prev' = Before
    /\ UNCHANGED stepVars
    /\ UNCHANGED <<roomVars, candidateVars, users, userCurrentId,
                   rolePermissionCurrentId, issued, page>>

\* DELETE /api/role-permissions/:id
DeleteRolePermission(id) ==
    /\ rolePermissions' = deleteRolePermission(rolePermissions, id)
    /\ channels' = IF id \in DOMAIN rolePermissions
                   THEN broadcastUpdate(channels, "ROLE_PERMISSION_DELETED", id)
                   ELSE channels
    /\ last' = OtherRequest("deleteRolePermission",
                            IF id \in DOMAIN rolePermissions THEN 200 ELSE 404)
    /\ prev' = Before
    /\ UNCHANGED stepVars
    /\ UNCHANGED <<roomVars, candidateVars, users, userCurrentId,
                   rolePermissionCurrentId, clock, issued, page, patches>>

\* A viewer's page opens a WebSocket to /ws/app and the server accepts it
Connect(c) ==
    /\ IF c \in DOMAIN channels THEN channels[c].readyState = CLOSED ELSE TRUE
    /\ channels' = connection(channels, c)
    /\ last' = OtherRequest("connect", 101)
    /\ prev' = Before
    /\ UNCHANGED stepVars
    /\ UNCHANGED <<roomVars, candidateVars, accountVars, issued, page, patches>>

\* The closing handshake of a viewer's socket begins
BeginClose(c) ==
    /\ c \in DOMAIN channels /\ channels[c].readyState = OPEN
    /\ channels' = [channels EXCEPT ![c].readyState = CLOSING]
    /\ last' = OtherRequest("beginClose", 0)
    /\ prev' = Before
    /\ UNCHANGED stepVars
    /\ UNCHANGED <<roomVars, candidateVars, accountVars, issued, page, patches>>

\* ws.on('close'): the socket has left wss.clients
Close(c) ==
    /\ c \in DOMAIN channels /\ channels[c].readyState \in {OPEN, CLOSING}
    /\ channels' = [channels EXCEPT ![c].readyState = CLOSED]
    /\ last' = OtherRequest("close", 0)
    /\ prev' = Before
    /\ UNCHANGED stepVars
    /\ UNCHANGED <<roomVars, candidateVars, accountVars, issued, page, patches>>

\* EmailQueuePage opened for an email: both queries are fetched and the
\* effect runs when a candidate was found and the list is not empty.
ViewQueue(email) ==
    LET candidate == getCandidateByEmail(candidates, email)
        allCandidates == getCandidates(candidates)
    IN /\ page' = IF candidate # <<>> /\ Len(allCandidates) > 0
                  THEN Merge([email |-> email], QueueEffect(candidate[1], allCandidates))
                  ELSE Merge(NoPage, [email |-> email])
       /\ last' = OtherRequest("viewQueue", IF candidate # <<>> THEN 200 ELSE 404)
       /\ prev' = Before
       /\ UNCHANGED stepVars
       /\ UNCHANGED <<roomVars, candidateVars, accountVars, issued, channels, patches>>

\* EmailQueuePage is opened for the email of a stored candidate: both queries
\* are fetched, the effect runs and the WebSocket is opened
OpenQueuePage(email) ==
    /\ pageSocket = NoSocket
    /\ getCandidateByEmail(candidates, email) # <<>>
    /\ page' = Merge([email |-> email],
                     QueueEffect(getCandidateByEmail(candidates, email)[1],
                                 getCandidates(candidates)))
    /\ channels' = connection(channels, "EmailQueuePage")
    /\ pageSocket' = [candidate |-> getCandidateByEmail(candidates, email)[1].id,
                      handled |-> Len(channels'["EmailQueuePage"].received),
                      invalidated |-> FALSE]
    /\ last' = OtherRequest("viewQueue", 200)
    /\ prev' = Before
    /\ UNCHANGED <<roomVars, candidateVars, accountVars, issued, dashboards,
                   flights, patches>>

\* The page's websocket.onmessage handles the next message received
OnQueueMessage ==
    /\ pageSocket.candidate # Null
    /\ pageSocket.handled < Len(channels["EmailQueuePage"].received)
    /\ pageSocket' =
          [pageSocket EXCEPT
              !.handled = @ + 1,
              !.invalidated =
                  IF onmessage(channels["EmailQueuePage"].received[pageSocket.handled + 1],
                               pageSocket.candidate)
                  THEN TRUE ELSE @]
    /\ UNCHANGED <<roomVars, candidateVars, accountVars, issued, channels, page,
                   dashboards, flights, patches, last, prev>>

\* The page's invalidated queries are fetched again and the effect runs
RefetchQueuePage ==
    /\ pageSocket.invalidated
    /\ page' = IF getCandidateByEmail(candidates, page.email) # <<>>
               THEN Merge([email |-> page.email],
                          QueueEffect(getCandidateByEmail(candidates, page.email)[1],
                                      getCandidates(candidates)))
               ELSE page
    /\ pageSocket' = [pageSocket EXCEPT !.invalidated = FALSE]
    /\ UNCHANGED <<roomVars, candidateVars, accountVars, issued, channels,
                   dashboards, flights, patches, last, prev>>

\* POST /api/rooms/:roomId/assign-panel/:panelId arrives and runs to its
\* first await
ReceiveAssignPanel(roomId, panelId) ==
    /\ Len(flights) < MaxFlights
    /\ flights' = Append(flights, AssignPanelBegin(Store, roomId, panelId))
    /\ UNCHANGED <<roomVars, candidateVars, accountVars, issued, channels, page,
                   pageSocket, dashboards, patches, last, prev>>

\* The assign-panel handler of request q runs on to its next await, or to
\* its answer
ResumeAssignPanel(q) ==
    /\ q \in DOMAIN flights
    /\ flights[q].op = "assign-panel" /\ flights[q].pc # "done"
    /\ \E r \in {AssignPanelResume(Store, flights[q])} :
          /\ rooms' = r.st.rooms
          /\ panels' = r.st.panels
          /\ channels' = Broadcasts(channels, r.events)
          /\ flights' = [flights EXCEPT ![q] = r.f]
          /\ last' = IF r.f.pc = "done"
                     THEN OtherRequest("assign-panel", r.f.status) ELSE last
          /\ prev' = IF r.f.pc = "done" THEN Before ELSE prev
    /\ UNCHANGED <<roomCurrentId, panelCurrentId, candidateVars, accountVars,
                   issued, page, pageSocket, dashboards, patches>>

\* POST /api/feedback arrives with a body the schema accepts and runs to its
\* first await
ReceiveFeedback(candidateId, decision, nextRound) ==
    /\ Len(flights) < MaxFlights
    /\ feedbackCurrentId <= MaxFeedbacks
    /\ feedbacks' = createFeedback(feedbacks, feedbackCurrentId,
                        [candidateId |-> candidateId, decision |-> decision,
                         nextRound |-> nextRound])
    /\ feedbackCurrentId' = feedbackCurrentId + 1
    /\ issued' = Issue("feedbacks", feedbackCurrentId)
    /\ flights' = Append(flights, FeedbackBegin(feedbackCurrentId, candidateId,
                                                decision, nextRound))
    /\ UNCHANGED <<roomVars, candidates, candidateCurrentId, accountVars, channels,
                   page, pageSocket, dashboards, patches, last, prev>>

\* The feedback handler of request q runs on to its next await, or to its
\* answer
ResumeFeedback(q) ==
    /\ q \in DOMAIN flights
    /\ flights[q].op = "feedback" /\ flights[q].pc # "done"
    /\ \E r \in {FeedbackResume(candidates, flights[q])} :
          /\ candidates' = r.cands
          /\ channels' = Broadcasts(channels, r.events)
          /\ flights' = [flights EXCEPT ![q] = r.f]
          /\ last' = IF r.f.pc = "done"
                     THEN FeedbackRequest(r.f.candidateId, r.f.decision,
                                          r.f.nextRound, r.f.status)
                     ELSE last
          /\ prev' = IF r.f.pc = "done" THEN Before ELSE prev
    /\ UNCHANGED <<roomVars, candidateCurrentId, feedbacks, feedbackCurrentId,
                   accountVars, issued, page, pageSocket, dashboards, patches>>

\* A panel's user opens the dashboard: both queries are fetched
OpenDashboard(p) ==
    /\ p \in DOMAIN panels /\ p \notin DOMAIN dashboards
    /\ dashboards' = MapSet(dashboards, p,
            Fetched([userPanel |-> panels[p], candidates |-> <<>>,
                     currentCandidate |-> Null, pickUp |-> <<>>, clicks |-> 0],
                    panels[p], candidates))
    /\ UNCHANGED <<roomVars, candidateVars, accountVars, issued, channels, page,
                   pageSocket, flights, patches, last, prev>>

\* The dashboard's invalidated queries are fetched again
RefetchDashboard(p) ==
    /\ p \in DOMAIN dashboards
    /\ dashboards' = [dashboards EXCEPT ![p] = Fetched(@, panels[p], candidates)]
    /\ UNCHANGED <<roomVars, candidateVars, accountVars, issued, channels, page,
                   pageSocket, flights, patches, last, prev>>

\* The first request of a pick-up is served: PATCH /api/panels/:id with
\* { currentCandidate: candidateId }; the second follows when it answers ok
PickUpPanel(p, candidateId) ==
    LET id == dashboards[p].userPanel.id
    IN /\ dashboards[p].clicks < MaxClicks
       /\ panels' = updatePanel(Store, id, [currentCandidate |-> candidateId]).panels
       /\ patches' = patches + 1
       /\ channels' = IF id \in DOMAIN panels
                      THEN broadcastUpdate(channels, "PANEL_UPDATED", panels'[id].id)
                      ELSE channels
       /\ dashboards' = [dashboards EXCEPT
                            ![p].pickUp = IF id \in DOMAIN panels
                                          THEN <<candidateId>> ELSE <<>>,
                            ![p].clicks = @ + 1]
       /\ last' = OtherRequest("patchPanel", IF id \in DOMAIN panels THEN 200 ELSE 404)
       /\ prev' = Before
       /\ UNCHANGED <<rooms, roomCurrentId, panelCurrentId, candidateVars, accountVars,
                      issued, page, pageSocket, flights>>

\* "Get Next Candidate" is clicked: the button is shown while no candidate is
\* current and the queue is not empty; nextCandidate = queueCandidates[0]
GetNextCandidate(p) ==
    /\ p \in DOMAIN dashboards
    /\ dashboards[p].pickUp = <<>>
    /\ dashboards[p].currentCandidate = Null
    /\ queueCandidates(dashboards[p]) # <<>>
    /\ PickUpPanel(p, queueCandidates(dashboards[p])[1].id)

\* A candidate's QR code is scanned: GET /api/candidates/serial/:serialNo,
\* then the pick-up of the candidate found
ScanCandidate(p, serialNo) ==
    /\ p \in DOMAIN dashboards
    /\ dashboards[p].pickUp = <<>>
    /\ getCandidateBySerialNo(candidates, serialNo) # <<>>
    /\ PickUpPanel(p, getCandidateBySerialNo(candidates, serialNo)[1].id)

\* The second request of a pick-up is served: PATCH /api/candidates/:id with
\* { status: "in_process", assignedPanel }
PickUpCandidate(p) ==
    /\ p \in DOMAIN dashboards
    /\ dashboards[p].pickUp # <<>>
    /\ \E id \in {dashboards[p].pickUp[1]} :
          /\ candidates' = updateCandidate(candidates, id,
                                [status |-> "in_process",
                                 assignedPanel |-> dashboards[p].userPanel.id])
          /\ channels' = IF id \in DOMAIN candidates
                         THEN broadcastUpdate(channels, "CANDIDATE_UPDATED",
                                              candidates'[id].id)
                         ELSE channels
          /\ last' = OtherRequest("patchCandidate",
                                  IF id \in DOMAIN candidates THEN 200 ELSE 404)
    /\ patches' = patches + 1
    /\ dashboards' = [dashboards EXCEPT ![p].pickUp = <<>>]
    /\ prev' = Before
    /\ UNCHANGED <<roomVars, candidateCurrentId, feedbacks, feedbackCurrentId,
                   accountVars, issued, page, pageSocket, flights>>

\* The feedback form of the dashboard's current candidate is submitted
SubmitFromDashboard(p, decision, nextRound) ==
    /\ p \in DOMAIN dashboards
    /\ dashboards[p].currentCandidate # Null
    /\ SubmitFeedback(dashboards[p].currentCandidate, decision, nextRound)

\* Room and panel administration
NextRooms ==
    \/ \E n \in NewRoomNumbers, b \in BOOLEAN, l \in PanelLists : CreateRoom(n, b, l)
    \/ \E id \in ReqRoomIds, u \in RoomUpdates : PatchRoom(id, u)
    \/ \E n \in NewPanelRoomNos : CreatePanel(n)
    \/ \E id \in ReqPanelIds, u \in PanelUpdates : PatchPanel(id, u)
    \/ \E r \in ReqRoomIds, p \in ReqPanelIds : AssignPanel(r, p)
    \/ \E r \in ReqRoomIds, p \in ReqPanelIds : RemovePanel(r, p)

\* The candidate pipeline: registration, admin and panel updates, feedback
NextPipeline ==
    \/ \E e \in {"a@x.io"} : ManualCandidate(e, 100)
    \/ \E a \in {1} : PostCandidate("WD-002", "b@x.io", 100, "", "", a)
    \/ \E id \in ReqCandidateIds, u \in CandidateUpdates : PatchCandidate(id, u)
    \/ \E c \in ReqCandidateIds, d \in Decisions, n \in NextRounds : SubmitFeedback(c, d, n)

\* The candidate queue as the queue page computes it
NextQueue ==
    \/ \E e \in Emails, t \in Times, s \in PostStatuses, r \in PostRounds :
            PostCandidate("WD-001", e, t, s, r, Null)
    \/ \E e \in Emails : ViewQueue(e)

\* User and role permission administration
NextAccounts ==
    \/ \E r \in {"", "hr"}, a \in {<<>>, <<FALSE>>}, now \in Nows : CreateUser(r, a, now)
    \/ \E id \in ReqUserIds, u \in {[id |-> 1]} : PatchUser(id, u)
    \/ \E id \in ReqUserIds : DeleteUser(id)
    \/ \E r \in {"guest"}, now \in Nows : CreateRolePermission(r, now)
    \/ \E id \in ReqRolePermissionIds, u \in {[id |-> 1]}, now \in Nows :
            PatchRolePermission(id, u, now)
    \/ \E id \in ReqRolePermissionIds : DeleteRolePermission(id)

\* The update operation of every entity kind that has one
NextUpdates ==
    \/ \E e \in {"a@x.io"} : ManualCandidate(e, 100)
    \/ \E id \in ReqUserIds, u \in UserUpdates : PatchUser(id, u)
    \/ \E id \in ReqRolePermissionIds, u \in RolePermissionUpdates, now \in Nows :
            PatchRolePermission(id, u, now)
    \/ \E id \in ReqCandidateIds, u \in CandidateUpdates : PatchCandidate(id, u)
    \/ \E id \in ReqPanelIds, u \in PanelUpdates : PatchPanel(id, u)
    \/ \E id \in ReqRoomIds, u \in RoomUpdates : PatchRoom(id, u)

\* Registration of candidates by every route, and what writes their status
NextRegistration ==
    \/ \E n \in PostSerialNos, s \in {"", "in_queue"} :
            PostCandidate(n, "a@x.io", 100, s, "", Null)
    \/ \E e \in {"b@x.io"} : ManualCandidate(e, 100)
    \/ \E e \in {"a@x.io"} : Webhook(e, 50)
    \/ \E l \in SyncCandidates : Sync(l, 100)
    \/ \E id \in ReqCandidateIds,
          u \in KanbanUpdates \cup SerialNoUpdates
                \cup {[status |-> "in_process", assignedPanel |-> 1]} :
            PatchCandidate(id, u)
    \/ \E c \in ReqCandidateIds, d \in {"reject"} : SubmitFeedback(c, d, <<>>)

\* The requests served so far that create, patch or give feedback
Served == (candidateCurrentId - 1) + (feedbackCurrentId - 1) + patches

\* Viewers connecting and disconnecting while candidates are processed
NextWire ==
    \/ \E c \in Viewers : Connect(c)
    \/ \E c \in Viewers : BeginClose(c)
    \/ \E c \in Viewers : Close(c)
    \/ Served < MaxServed /\ \E e \in {"a@x.io"} : ManualCandidate(e, 100)
    \/ Served < MaxServed /\ \E id \in {1}, u \in {[status |-> "completed"]} :
            PatchCandidate(id, u)
    \/ Served < MaxServed /\ \E c \in {1}, d \in {"hold"} : SubmitFeedback(c, d, <<>>)

\* Assignment and removal of panels alone, from the seeded store
NextAssignments ==
    \/ \E r \in ReqRoomIds, p \in ReqPanelIds : AssignPanel(r, p)
    \/ \E r \in ReqRoomIds, p \in ReqPanelIds : RemovePanel(r, p)

\* Candidates taking their turn: registration, a panel's pick-up, feedback
\* that returns the candidate to the queue, and the queue page
NextTurns ==
    \/ \E e \in Emails, t \in Times : PostCandidate("WD-001", e, t, "", "", Null)
    \/ \E id \in ReqCandidateIds, u \in {[status |-> "in_process", assignedPanel |-> 1]} :
            PatchCandidate(id, u)
    \/ \E c \in ReqCandidateIds, d \in {"hold"} : SubmitFeedback(c, d, <<>>)
    \/ \E e \in Emails : ViewQueue(e)

\* Requests in flight
Requests == 1..MaxFlights

\* Handlers of concurrent requests, interleaved at their awaits
NextHandlers ==
    \/ \E e \in {"a@x.io"} : ManualCandidate(e, 100)
    \/ \E r \in ReqRoomIds \ {1}, p \in ReqPanelIds : ReceiveAssignPanel(r, p)
    \/ \E q \in Requests : ResumeAssignPanel(q)
    \/ \E c \in {1}, d \in {"next", "reject"}, n \in {<<"hr">>} : ReceiveFeedback(c, d, n)
    \/ \E q \in Requests : ResumeFeedback(q)

\* Panels picking candidates up and giving feedback on their dashboards
NextDashboards ==
    \/ \E e \in Emails : ManualCandidate(e, 100)
    \/ \E n \in NewPanelRoomNos : CreatePanel(n)
    \/ \E p \in ReqPanelIds : OpenDashboard(p)
    \/ \E p \in ReqPanelIds : RefetchDashboard(p)
    \/ \E p \in ReqPanelIds : GetNextCandidate(p)
    \/ \E p \in ReqPanelIds, n \in PostSerialNos : ScanCandidate(p, n)
    \/ \E p \in ReqPanelIds : PickUpCandidate(p)
    \/ \E p \in ReqPanelIds, d \in {"next", "hold"} : SubmitFromDashboard(p, d, <<>>)

\* The seeded panel's dashboard alone
NextPanel ==
    \/ \E e \in Emails : ManualCandidate(e, 100)
    \/ \E p \in {1} : OpenDashboard(p)
    \/ \E p \in {1} : RefetchDashboard(p)
    \/ \E p \in {1} : GetNextCandidate(p)
    \/ \E p \in {1} : PickUpCandidate(p)
    \/ \E p \in {1}, d \in Decisions, n \in {<<>>, <<"hr">>} : SubmitFromDashboard(p, d, n)

\* A candidate's queue page, open and connected, while candidates register,
\* are taken into process and receive feedback
NextQueuePage ==
    \/ \E e \in Emails : ManualCandidate(e, 100)
    \/ \E e \in Emails : OpenQueuePage(e)
    \/ \E id \in ReqCandidateIds, u \in {[status |-> "in_process", assignedPanel |-> 1]} :
            PatchCandidate(id, u)
    \/ \E c \in ReqCandidateIds, d \in {"next", "reject"} : SubmitFeedback(c, d, <<"hr">>)
    \/ OnQueueMessage
    \/ RefetchQueuePage

Next == NextRooms \/ NextPipeline \/ NextQueue \/ NextAccounts \/ NextUpdates
        \/ NextRegistration \/ NextWire \/ NextAssignments
        \/ NextTurns \/ NextHandlers \/ NextDashboards \/ NextPanel
        \/ NextQueuePage

Spec == Init /\ [][Next]_vars
SpecRooms == Init /\ [][NextRooms]_vars
SpecPipeline == Init /\ [][NextPipeline]_vars
SpecQueue == Init /\ [][NextQueue]_vars
SpecAccounts == Init /\ [][NextAccounts]_vars
SpecUpdates == Init /\ [][NextUpdates]_vars
SpecRegistration == Init /\ [][NextRegistration]_vars
SpecWire == Init /\ [][NextWire]_vars
SpecAssignments == Init /\ [][NextAssignments]_vars
SpecTurns == Init /\ [][NextTurns]_vars
SpecHandlers == Init /\ [][NextHandlers]_vars
SpecDashboards == Init /\ [][NextDashboards]_vars

\* The queue page, with every message received handled and every invalidated
\* query fetched again in the end
SpecQueuePage ==
    Init /\ [][NextQueuePage]_vars /\ WF_vars(OnQueueMessage) /\ WF_vars(RefetchQueuePage)

\* The seeded panel's dashboard, with the second request of every pick-up
\* served and every invalidated query fetched again in the end
SpecPanel ==
    /\ Init /\ [][NextPanel]_vars
    /\ WF_vars(\E p \in {1} : PickUpCandidate(p))
    /\ WF_vars(\E p \in {1} : RefetchDashboard(p))

---------------------------------------------------------------------------
(* Room/panel assignment: C1 - C5 *)

RoomsListing(p) == {k \in DOMAIN rooms : Includes(rooms[k].assignedPanels, p)}

\* C1: in every reachable state each panel identifier appears in the
\* assignedPanels list of at most one room.
C1_PanelInAtMostOneRoom ==
    \A p \in ReqPanelIds : Cardinality(RoomsListing(p)) <= 1

\* C2: in every reachable state every room has
\* isOccupied = (assignedPanels is non-empty).
C2_OccupiedIffAssigned ==
    \A k \in DOMAIN rooms : rooms[k].isOccupied = (rooms[k].assignedPanels # <<>>)

\* C3: an assign-panel request answered not-found (the room or the panel does
\* not exist) leaves every stored room and panel as it was.
C3_NotFoundChangesNothing ==
    [][(last'.op = "assign" /\ last'.status = 404)
            => (rooms' = rooms /\ panels' = panels)]_vars

\* C4: after assign-panel(A, P) followed by assign-panel(B, P) for distinct
\* existing rooms A and B, P is not in A's list, P is in B's list, P's roomNo
\* is B's room number, and A is unoccupied iff A has no assigned panel left.
C4_Reassign ==
    (/\ prev.op = "assign" /\ prev.status = 200
     /\ last.op = "assign" /\ last.status = 200
     /\ prev.panelId = last.panelId
     /\ prev.roomId # last.roomId)
    => /\ ~Includes(rooms[prev.roomId].assignedPanels, last.panelId)
       /\ Includes(rooms[last.roomId].assignedPanels, last.panelId)
       /\ panels[last.panelId].roomNo = rooms[last.roomId].roomNumber
       /\ (~rooms[prev.roomId].isOccupied) = (rooms[prev.roomId].assignedPanels = <<>>)

\* C5: assign-panel(R, P) on a room with no assigned panel and isOccupied =
\* false yields isOccupied = true, P in assignedPanels and P.roomNo = R's
\* number; remove-panel(R, P) immediately afterwards yields assignedPanels =
\* [], isOccupied = false and P.roomNo = "".
C5_AssignThenRemove ==
    /\ (last.op = "assign" /\ last.status = 200 /\ last.preEmpty)
        => /\ rooms[last.roomId].isOccupied
           /\ Includes(rooms[last.roomId].assignedPanels, last.panelId)
           /\ panels[last.panelId].roomNo = rooms[last.roomId].roomNumber
    /\ (/\ last.op = "remove"
        /\ prev.op = "assign" /\ prev.status = 200 /\ prev.preEmpty
        /\ prev.roomId = last.roomId /\ prev.panelId = last.panelId)
        => /\ rooms[last.roomId].assignedPanels = <<>>
           /\ ~rooms[last.roomId].isOccupied
           /\ panels[last.panelId].roomNo = ""

\* The case of C5: a panel was assigned to an empty room and removed again
\* by the next request.
C5_Witness ==
    /\ last.op = "remove" /\ last.status = 200
    /\ prev.op = "assign" /\ prev.status = 200 /\ prev.preEmpty
    /\ prev.roomId = last.roomId /\ prev.panelId = last.panelId

---------------------------------------------------------------------------
(* Feedback decisions: C6 - C9 *)

\* C6: after every recorded feedback submission the candidate the feedback
\* refers to has assignedPanel = null.
C6_FeedbackClearsPanel ==
    (last.op = "feedback" /\ last.status = 201 /\ last.candidateId \in DOMAIN candidates)
        => candidates[last.candidateId].assignedPanel = Null

\* C7: decision next sets the candidate's status to in_queue and its
\* currentRound to the feedback's nextRound when that is present, whatever
\* string it is, and leaves currentRound unchanged when it is absent.
C7_NextDecision ==
    [][(/\ last'.op = "feedback" /\ last'.status = 201
        /\ last'.decision = "next"
        /\ last'.candidateId \in DOMAIN candidates)
        => /\ candidates'[last'.candidateId].status = "in_queue"
           /\ candidates'[last'.candidateId].currentRound =
                IF last'.nextRound # <<>> THEN last'.nextRound[1]
                ELSE candidates[last'.candidateId].currentRound]_vars

\* C8: decision reject sets the candidate's status to rejected, whatever its
\* status and round were, and leaves currentRound unchanged.
C8_RejectDecision ==
    [][(/\ last'.op = "feedback" /\ last'.status = 201
        /\ last'.decision = "reject"
        /\ last'.candidateId \in DOMAIN candidates)
        => /\ candidates'[last'.candidateId].status = "rejected"
           /\ candidates'[last'.candidateId].currentRound =
                candidates[last'.candidateId].currentRound]_vars

\* C9: decision hold sets the candidate's status to in_queue and leaves
\* currentRound unchanged.
C9_HoldDecision ==
    [][(/\ last'.op = "feedback" /\ last'.status = 201
        /\ last'.decision = "hold"
        /\ last'.candidateId \in DOMAIN candidates)
        => /\ candidates'[last'.candidateId].status = "in_queue"
           /\ candidates'[last'.candidateId].currentRound =
                candidates[last'.candidateId].currentRound]_vars

---------------------------------------------------------------------------
(* Queue position: C10 *)

InQueueOfRound(j, k) ==
    /\ candidates[j].currentRound = candidates[k].currentRound
    /\ candidates[j].status \in QueueStatuses

\* The page shows candidate k: it was just computed for k's email
PageShows(k) ==
    /\ last.op = "viewQueue"
    /\ candidates[k].email = page.email
    /\ candidates[k].status \in QueueStatuses

SoleWithEmail(k) ==
    \A j \in DOMAIN candidates : j # k => candidates[j].email # candidates[k].email

\* C10 as stated: the computed queue position of a registered or in_queue
\* candidate is 1 plus the number of queued candidates of the same round with
\* a strictly earlier registration timestamp, also when timestamps are shared.
C10_StrictlyEarlier ==
    \A k \in DOMAIN candidates :
        PageShows(k) =>
            page.queuePosition = 1 + Cardinality({j \in DOMAIN candidates :
                /\ InQueueOfRound(j, k)
                /\ candidates[j].timestamp < candidates[k].timestamp})

\* C10 as amended: for a registered or in_queue candidate whose email no other
\* candidate has, the computed queue position is 1 plus the number of queued
\* candidates of the same round that registered strictly earlier, or at the
\* same timestamp and were stored before it.
C10_EarlierOrStoredBefore ==
    \A k \in DOMAIN candidates :
        (PageShows(k) /\ SoleWithEmail(k)) =>
            page.queuePosition = 1 + Cardinality({j \in DOMAIN candidates :
                /\ InQueueOfRound(j, k)
                /\ \/ candidates[j].timestamp < candidates[k].timestamp
                   \/ /\ candidates[j].timestamp = candidates[k].timestamp
                      /\ j < k})

\* The case of C10: the page was computed for a queued candidate that shares
\* its timestamp with a queued candidate of its round stored before it, and
\* it shows that candidate behind the other one.
C10_Witness ==
    \E k \in DOMAIN candidates :
        /\ PageShows(k) /\ SoleWithEmail(k)
        /\ page.queuePosition = 2
        /\ \E j \in DOMAIN candidates :
              j < k /\ InQueueOfRound(j, k)
              /\ candidates[j].timestamp = candidates[k].timestamp

---------------------------------------------------------------------------
(* Entity store contracts: C11 - C13 *)

Kinds == {"users", "rolePermissions", "candidates", "panels", "rooms", "feedbacks"}

\* C11: for every entity kind, the identifiers returned by successive create
\* calls are strictly increasing, so none is returned twice, also after the
\* entity that held it was deleted or updated.
C11_IdsStrictlyIncrease ==
    \A kind \in Kinds :
        \A i, j \in 1..Len(issued[kind]) :
            i < j => issued[kind][i] < issued[kind][j]

\* The case of C11: a user and a role permission were created after an
\* earlier created one of the kind had been deleted.
C11_Witness ==
    /\ \E i \in 1..Len(issued.users) :
          /\ issued.users[i] \notin DOMAIN users
          /\ \E j \in 1..Len(issued.users) : i < j /\ issued.users[j] \in DOMAIN users
    /\ \E i \in 1..Len(issued.rolePermissions) :
          /\ issued.rolePermissions[i] \notin DOMAIN rolePermissions
          /\ \E j \in 1..Len(issued.rolePermissions) :
                i < j /\ issued.rolePermissions[j] \in DOMAIN rolePermissions


\* update(id, partial) took the map old of one kind to new: every entity
\* under another key is as it was, and the entity under id kept every field
\* that is neither a key of partial nor in exempt.
Frame(old, new, id, partial, exempt) ==
    /\ DOMAIN new = DOMAIN old
    /\ \A k \in DOMAIN old : k # id => new[k] = old[k]
    /\ id \in DOMAIN old =>
          /\ DOMAIN old[id] \subseteq DOMAIN new[id]
          /\ \A f \in DOMAIN old[id] \ (DOMAIN partial \cup exempt) :
                new[id][f] = old[id][f]

\* The update of the four kinds whose update is a plain shallow merge
PlainUpdatesFrame ==
    /\ \A id \in ReqUserIds, u \in UserUpdates :
          PatchUser(id, u) =>
             /\ Frame(users, users', id, u, {})
             /\ UNCHANGED <<rolePermissions, candidates, panels, rooms, feedbacks>>
    /\ \A id \in ReqCandidateIds, u \in CandidateUpdates :
          PatchCandidate(id, u) =>
             /\ Frame(candidates, candidates', id, u, {})
             /\ UNCHANGED <<users, rolePermissions, panels, rooms, feedbacks>>
    /\ \A id \in ReqPanelIds, u \in PanelUpdates :
          PatchPanel(id, u) =>
             /\ Frame(panels, panels', id, u, {})
             /\ UNCHANGED <<users, rolePermissions, candidates, rooms, feedbacks>>
    /\ \A id \in ReqRoomIds, u \in RoomUpdates :
          PatchRoom(id, u) =>
             /\ Frame(rooms, rooms', id, u, {})
             /\ UNCHANGED <<users, rolePermissions, candidates, panels, feedbacks>>

\* C12 as stated: for every kind with an update operation (user, candidate,
\* panel, room, role permission), update(id, partial) leaves every field of
\* the entity that is not a key of partial as it was, and leaves every other
\* entity unchanged.
C12_UpdateFrame ==
    [][/\ PlainUpdatesFrame
       /\ \A id \in ReqRolePermissionIds, u \in RolePermissionUpdates, now \in Nows :
             PatchRolePermission(id, u, now) =>
                /\ Frame(rolePermissions, rolePermissions', id, u, {})
                /\ UNCHANGED <<users, candidates, panels, rooms, feedbacks>>]_vars

\* C12 as amended: the same, except that an update of a role permission sets
\* its updatedAt to the time of the update whether or not partial names it.
C12_UpdateFrameButUpdatedAt ==
    [][/\ PlainUpdatesFrame
       /\ \A id \in ReqRolePermissionIds, u \in RolePermissionUpdates, now \in Nows :
             PatchRolePermission(id, u, now) =>
                /\ Frame(rolePermissions, rolePermissions', id, u, {"updatedAt"})
                /\ id \in DOMAIN rolePermissions => rolePermissions'[id].updatedAt = now
                /\ UNCHANGED <<users, candidates, panels, rooms, feedbacks>>]_vars

\* The case of C12: a role permission was updated with the partial
\* { role: "guest" }, which does not name updatedAt, and its updatedAt moved.
C12_Witness ==
    /\ last.op = "patchRolePermission" /\ last.status = 200
    /\ \E id \in DOMAIN rolePermissions :
          /\ rolePermissions[id].role = "guest"
          /\ rolePermissions[id].updatedAt > rolePermissions[id].createdAt

\* The second application of update(id, partial) of the four kinds whose
\* update is a plain shallow merge changes nothing
PlainUpdatesIdempotent ==
    /\ \A id \in ReqUserIds, u \in UserUpdates :
          PatchUser(id, u) => updateUser(users', id, u) = users'
    /\ \A id \in ReqCandidateIds, u \in CandidateUpdates :
          PatchCandidate(id, u) => updateCandidate(candidates', id, u) = candidates'
    /\ \A id \in ReqPanelIds, u \in PanelUpdates :
          PatchPanel(id, u) =>
             updatePanel([rooms |-> rooms', panels |-> panels'], id, u).panels = panels'
    /\ \A id \in ReqRoomIds, u \in RoomUpdates :
          PatchRoom(id, u) =>
             updateRoom([rooms |-> rooms', panels |-> panels'], id, u).rooms = rooms'

\* C13 as stated: for every kind with an update operation, applying the same
\* update(id, partial) twice in succession leaves the stored entity as
\* applying it once does.
C13_UpdateIdempotent ==
    [][/\ PlainUpdatesIdempotent
       /\ \A id \in ReqRolePermissionIds, u \in RolePermissionUpdates, now \in Nows :
             PatchRolePermission(id, u, now) =>
                \A later \in Nows' :
                    updateRolePermission(rolePermissions', id, u, later)
                        = rolePermissions']_vars

\* C13 as amended: the same, except that the second update of a role
\* permission moves its updatedAt to the time of the second update.
C13_UpdateIdempotentButUpdatedAt ==
    [][/\ PlainUpdatesIdempotent
       /\ \A id \in ReqRolePermissionIds, u \in RolePermissionUpdates, now \in Nows :
             PatchRolePermission(id, u, now) =>
                \A later \in Nows' :
                    updateRolePermission(rolePermissions', id, u, later)
                        = IF id \in DOMAIN rolePermissions
                          THEN [rolePermissions' EXCEPT ![id].updatedAt = later]
                          ELSE rolePermissions']_vars

\* The case of C13: a role permission was updated at a time after which the
\* clock can still advance, so that a second update can come later.
C13_Witness ==
    /\ last.op = "patchRolePermission" /\ last.status = 200
    /\ \E later \in Nows : later > clock
    /\ \E id \in DOMAIN rolePermissions : rolePermissions[id].updatedAt = clock

---------------------------------------------------------------------------
(* Candidate records: C14 - C16 *)

\* "WD-NNN" for the n-th candidate
SerialOf(n) ==
    IF n < 10 THEN "WD-00" \o ToString(n)
    ELSE IF n < 100 THEN "WD-0" \o ToString(n)
    ELSE "WD-" \o ToString(n)

\* C14: in every reachable state no two stored candidates have the same
\* serial number, and a serial number generated by the manual registration or
\* the webhook for the n-th candidate created is the n-th of WD-001, WD-002, ...
C14_SerialNumbersUnique ==
    /\ \A j, k \in DOMAIN candidates :
          j # k => candidates[j].serialNo # candidates[k].serialNo
    /\ last.op \in {"manualCandidate", "webhook"} =>
          candidates[candidateCurrentId - 1].serialNo = SerialOf(candidateCurrentId - 1)

\* C15: once a candidate is created its serialNo never changes, whatever
\* request is served (PATCH /candidates/:id, feedback, sync, registrations).
C15_SerialNoImmutable ==
    [][\A k \in DOMAIN candidates :
          candidates'[k].serialNo = candidates[k].serialNo]_vars

\* The statuses of a candidate
CandidateStatuses == {"registered", "in_queue", "in_process", "completed", "rejected"}

\* C16: in every reachable state every candidate's status is one of
\* registered, in_queue, in_process, completed, rejected.
C16_StatusInEnum ==
    \A k \in DOMAIN candidates : candidates[k].status \in CandidateStatuses

---------------------------------------------------------------------------
(* Realtime broadcast: C17 - C19 *)

\* The events broadcast in a step that took a viewer's channel from old to
\* new: those sent to it and those it missed
SentIn(old, new) == SubSeq(new.received, Len(old.received) + 1, Len(new.received))
MissedIn(old, new) == SubSeq(new.missed, Len(old.missed) + 1, Len(new.missed))

\* The events, without the viewer's numbering
Unnumbered(events) ==
    [i \in 1..Len(events) |-> [type |-> events[i].type, id |-> events[i].id]]

\* C17: each broadcast event is sent exactly once to every channel that is
\* OPEN at the moment of the broadcast, and to no channel that is not: in
\* every step, a channel that is OPEN is sent each event broadcast in the step
\* once and in order and misses none, a channel that is not OPEN is sent
\* nothing, and all channels are told of the same events.
C17_SentOnceToOpenChannels ==
    [][\A c \in DOMAIN channels :
          LET old == channels[c]
              new == channels'[c]
              sent == SentIn(old, new)
              missed == MissedIn(old, new)
          IN /\ Len(new.received) >= Len(old.received)
             /\ Len(new.missed) >= Len(old.missed)
             /\ SubSeq(new.received, 1, Len(old.received)) = old.received
             /\ SubSeq(new.missed, 1, Len(old.missed)) = old.missed
             /\ IF old.readyState = OPEN
                THEN /\ missed = <<>>
                     /\ Len(sent) = new.count - old.count
                     /\ \A i \in 1..Len(sent) : sent[i].n = old.count + i
                ELSE /\ sent = <<>>
                     /\ Len(missed) = new.count - old.count
             /\ \A d \in DOMAIN channels :
                   Unnumbered(sent \o missed)
                     = Unnumbered(SentIn(channels[d], channels'[d])
                                  \o MissedIn(channels[d], channels'[d]))]_vars

\* The case of C17: the event broadcast last was sent to a viewer whose
\* channel is OPEN and not to the other viewer, whose channel is CLOSING.
C17_Witness ==
    /\ last.op \in {"manualCandidate", "patchCandidate", "feedback"}
    /\ \E c, d \in DOMAIN channels :
          /\ channels[c].readyState = OPEN
          /\ channels[c].received # <<>>
          /\ channels[c].received[Len(channels[c].received)].n = channels[c].count
          /\ channels[d].readyState = CLOSING
          /\ channels[d].missed # <<>>
          /\ channels[d].missed[Len(channels[d].missed)].n = channels[d].count

\* What a viewer has been sent so far
Received(c) == IF c \in DOMAIN channels THEN channels[c].received ELSE <<>>

\* No event a viewer missed is among those it was sent
NoReplay ==
    \A c \in DOMAIN channels :
        \A i \in 1..Len(channels[c].missed), j \in 1..Len(channels[c].received) :
            channels[c].missed[i].n # channels[c].received[j].n

\* C18: a channel that connects or reconnects after an event was broadcast
\* never receives that event: connecting sends the viewer nothing, and no
\* event broadcast while its channel was not open is ever among those it was
\* sent.
C18_NoReplayOnConnect ==
    /\ []NoReplay
    /\ [][\A c \in Viewers : Connect(c) => Received(c)' = Received(c)]_vars

\* The case of C18: a viewer missed an event while its channel was not open,
\* reconnected, and was sent a later event.
C18_Witness ==
    \E c \in DOMAIN channels :
        /\ channels[c].readyState = OPEN
        /\ \E i \in 1..Len(channels[c].missed), j \in 1..Len(channels[c].received) :
              channels[c].missed[i].n < channels[c].received[j].n

\* C19: every successful request that changes a stored candidate, a feedback
\* submission included, broadcasts a CANDIDATE_CREATED or CANDIDATE_UPDATED
\* event for that candidate (observed on every viewer's channel that exists).
C19_CandidateChangeBroadcast ==
    [][\A k \in DOMAIN candidates' :
          (k \notin DOMAIN candidates \/ candidates'[k] # candidates[k]) =>
             \A c \in DOMAIN channels :
                \E e \in {Unnumbered(SentIn(channels[c], channels'[c])
                                     \o MissedIn(channels[c], channels'[c]))[i] :
                            i \in 1..(channels'[c].count - channels[c].count)} :
                    /\ e.type \in {"CANDIDATE_CREATED", "CANDIDATE_UPDATED"}
                    /\ e.id = candidates'[k].id]_vars

---------------------------------------------------------------------------
(* Panel removal: C20 *)

\* C20: remove-panel(R, P) sets P's roomNo to "" only if P's roomNo equals
\* R's room number before the call; otherwise (P belongs to another room, or
\* R does not exist) P's roomNo is left unchanged.
C20_RemoveClearsOwnRoomOnly ==
    [][\A r \in ReqRoomIds, p \in ReqPanelIds :
          (RemovePanel(r, p) /\ p \in DOMAIN panels) =>
             IF r \in DOMAIN rooms /\ panels[p].roomNo = rooms[r].roomNumber
             THEN panels'[p].roomNo \in {"", panels[p].roomNo}
             ELSE panels'[p].roomNo = panels[p].roomNo]_vars


---------------------------------------------------------------------------
(* Feedback submissions: C21 *)

\* C21: a feedback submission whose candidateId refers to no stored candidate
\* is answered with a not-found error (404) and creates no feedback record.
C21_FeedbackNeedsCandidate ==
    [][(last'.op = "feedback" /\ last'.candidateId \notin DOMAIN candidates)
            => (last'.status = 404 /\ feedbacks' = feedbacks)]_vars


---------------------------------------------------------------------------
(* Terminal status: C28 *)

\* C28: rejected is terminal with respect to feedback: once a candidate's
\* status is rejected, no later feedback submission, whatever its decision,
\* changes that candidate's status or currentRound.
C28_RejectedIsTerminal ==
    [][\A k \in DOMAIN candidates :
          (last'.op = "feedback" /\ candidates[k].status = "rejected")
             => /\ candidates'[k].status = "rejected"
                /\ candidates'[k].currentRound = candidates[k].currentRound]_vars


---------------------------------------------------------------------------
(* Identity of stored entities: C30 *)

\* Every entity of the map is stored under its own id
KeyedById(m) == \A k \in DOMAIN m : m[k].id = k

\* C30: in every reachable state each stored entity's id field equals the key
\* under which it is stored, also after PATCH requests whose body names id, so
\* that a lookup by an entity's id field finds that same entity.
C30_IdEqualsKey ==
    /\ KeyedById(candidates) /\ KeyedById(feedbacks)
    /\ KeyedById(panels) /\ KeyedById(rooms)
    /\ KeyedById(users) /\ KeyedById(rolePermissions)


---------------------------------------------------------------------------
(* Room of an assigned panel: C29 *)

\* C29: in every state reachable from the seeded store by assign-panel and
\* remove-panel requests, with any room and panel identifiers, whenever panel
\* P is in room R's assignedPanels, P's roomNo equals R's room number.
C29_AssignedPanelHasRoomNo ==
    \A r \in DOMAIN rooms, p \in DOMAIN panels :
        Includes(rooms[r].assignedPanels, p) => panels[p].roomNo = rooms[r].roomNumber


---------------------------------------------------------------------------
(* A missed turn: C24 *)

\* The candidates of the map waiting in the queue of a round
WaitingIn(cands, round) ==
    {j \in DOMAIN cands : cands[j].currentRound = round
                          /\ cands[j].status \in QueueStatuses}

\* C24: a candidate returned to the queue by a feedback with decision hold
\* after having been taken into process is moved to the end of the queue: the
\* queue position computed for it then is behind every candidate already
\* waiting in the queue of its round.
C24_HeldGoesToEnd ==
    [][\A k \in DOMAIN candidates :
          (/\ last'.op = "feedback" /\ last'.decision = "hold"
           /\ last'.candidateId = k
           /\ candidates[k].status = "in_process"
           /\ candidates'[k].status \in QueueStatuses)
          => QueueEffect(candidates'[k], getCandidates(candidates')).queuePosition
                = 1 + Cardinality(WaitingIn(candidates, candidates'[k].currentRound))]_vars


---------------------------------------------------------------------------
(* Concurrent requests: C25 *)

\* Every request received has been answered
AllAnswered == \A q \in DOMAIN flights : flights[q].pc = "done"

\* C25: for two assign-panel requests for the same panel P with different
\* target rooms whose steps interleave at the handler's awaits, in every
\* interleaving the final state has P in exactly one room's assignedPanels
\* and P's roomNo equal to that room's number.
C25_ConcurrentAssignsAgree ==
    \A q1, q2 \in DOMAIN flights :
        (/\ AllAnswered
         /\ flights[q1].op = "assign-panel" /\ flights[q1].status = 200
         /\ flights[q2].op = "assign-panel" /\ flights[q2].status = 200
         /\ flights[q1].panelId = flights[q2].panelId
         /\ flights[q1].roomId # flights[q2].roomId)
        => \E r \in DOMAIN rooms :
              /\ RoomsListing(flights[q1].panelId) = {r}
              /\ panels[flights[q1].panelId].roomNo = rooms[r].roomNumber


---------------------------------------------------------------------------
(* Mutations and broadcasts of one request: C22 *)

\* The kind of entity an event reports
KindOf(type) ==
    CASE type = "ROOM_UPDATED" -> "room"
      [] type = "PANEL_UPDATED" -> "panel"
      [] type = "FEEDBACK_CREATED" -> "feedback"

\* The events request q broadcasts in this step
EmittedNow(q) ==
    SubSeq(flights'[q].emitted, Len(flights[q].emitted) + 1, Len(flights'[q].emitted))

\* Request q changes the store in this step
Mutates(q) ==
    /\ flights'[q] # flights[q]
    /\ <<rooms, panels, candidates, feedbacks>>' # <<rooms, panels, candidates, feedbacks>>

---------------------------------------------------------------------------
(* Panels and their current candidate: C26, C27 *)

\* C26: in every reachable state, under any interleaving of the panels' "Get
\* Next Candidate" and QR-scan pick-ups (each a PATCH of the panel followed by
\* a PATCH of the candidate, chosen from the panel's possibly stale view of
\* the queue), no candidate is the currentCandidate of two different panels.
C26_OnePanelPerCandidate ==
    \A p1, p2 \in DOMAIN panels :
        (p1 # p2 /\ panels[p1].currentCandidate # Null)
            => panels[p1].currentCandidate # panels[p2].currentCandidate


\* Panel p's dashboard shows a current candidate that the panel holds in the
\* store and for whom feedback has been recorded
FeedbackGiven(p) ==
    /\ p \in DOMAIN dashboards /\ p \in DOMAIN panels
    /\ dashboards[p].currentCandidate # Null
    /\ dashboards[p].pickUp = <<>>
    /\ panels[p].currentCandidate = dashboards[p].currentCandidate
    /\ \E k \in DOMAIN feedbacks :
          feedbacks[k].candidateId = dashboards[p].currentCandidate

\* Panel p's dashboard has no current candidate: "Get Next Candidate" is
\* offered when candidates wait
NoCurrentCandidate(p) ==
    /\ p \in DOMAIN dashboards /\ p \in DOMAIN panels
    /\ dashboards[p].currentCandidate = Null
    /\ panels[p].currentCandidate = Null

\* C27: after a panel has taken a candidate with "Get Next Candidate" and
\* submitted feedback for that candidate, the panel's currentCandidate
\* eventually becomes none, so that the panel can take the next candidate.
C27_PanelFreedAfterFeedback ==
    \A p \in ReqPanelIds : FeedbackGiven(p) ~> NoCurrentCandidate(p)


---------------------------------------------------------------------------
(* The queue page's displayed position: C23 *)

\* The position the page's effect computes from the current server state
PositionNow ==
    QueueEffect(getCandidateByEmail(candidates, page.email)[1],
                getCandidates(candidates)).queuePosition

\* The page is open and connected and displays another position than the
\* current server state gives
Stale ==
    /\ pageSocket.candidate # Null
    /\ channels["EmailQueuePage"].readyState = OPEN
    /\ getCandidateByEmail(candidates, page.email) # <<>>
    /\ page.queuePosition # PositionNow

\* C23: for a candidate whose queue page is open and connected, whenever a
\* server-side change alters the candidate's queue position, the page
\* eventually receives an event on which it refetches, so that its displayed
\* position converges to the position computed from the current server state.
C23_PositionConverges == Stale ~> ~Stale

=============================================================================
